---- MODULE Spec2Model ----
(***************************************************************************)
(* A model of TDBuilder's Builder (src/Builder.ts, first revision in the   *)
(* file): the memoizing build(), buildAll() in serial and parallel mode,   *)
(* and the per-target buildTarget() pipeline, one action per await point;   *)
(* then run(), join() and processCommandLine() on top of them.             *)
(***************************************************************************)
EXTENDS Integers, Sequences, FiniteSets, TLC

\* ------------------------------------------------------------------ bounds
MaxTime == 1          \* finite mtimes are 0..MaxTime
MaxRequests == 1      \* number of build() calls made from outside the Builder
MaxRuns == 2          \* number of run() calls made from outside the Builder
MaxCmdLen == 2        \* number of arguments of a command vector
MaxArgs == 3          \* number of arguments of a command line

\* ------------------------------------------------------------ value domains
NegInf == 0 - 1                       \* -Infinity
Mtimes == 0..MaxTime

\* the numbers an alternate mtime function reads from its sidecar files
SidecarTimes == {50, 100, 200, 300}

\* Infinity: above every mtime, of a file or of a sidecar
PosInf == MaxTime + 301

\* undefined, which an alternate mtime function yields for a path it knows
\* nothing about; it is no mtime and not -Infinity
Undefined == 0 - 2

Names == {"d", "e1", "e2", "sh"}
NoName == "-"
RootTrace == <<"root">>

\* run() is the one caller of buildAll that is not a target; its context is
\* {buildRuleTrace: [targetsSpecifiedVia]}
TopLevel == "root"
Callers == Names \cup {TopLevel}

Max(a, b) == IF a >= b THEN a ELSE b

\* ---------------------------------------------------------- command vectors
\* An argument is the sequence of the pieces the patterns of rewriteCommand
\* tell apart: <<"tdb:", "literal:", "a.c">> is the string "tdb:literal:a.c".
TdbTarget == <<"tdb:", "target">>

TdbPrereq == <<"tdb:", "prereq">>

TdbPrereqs == <<"tdb:", "prereqs">>

\* the command of the rules that have one, unless the table says otherwise
DefaultCmd == << <<"cc">>, TdbPrereqs, <<"-o">>, TdbTarget >>

\* -------------------------------------------------------------- rule tables
\* A BuildRule; present = FALSE stands for "no rule under that name"; cmd
\* says whether the rule has a command, rawCmd is the command.
MkRule(prereqs, targetType, isDirectory, invoke, cmd, keepOnFailure, dyn) ==
    [present |-> TRUE, prereqs |-> prereqs, targetType |-> targetType,
     isDirectory |-> isDirectory, invoke |-> invoke, cmd |-> cmd,
     rawCmd |-> IF cmd THEN DefaultCmd ELSE <<>>,
     keepOnFailure |-> keepOnFailure, dyn |-> dyn]

NoRule ==
    [present |-> FALSE, prereqs |-> <<>>, targetType |-> "undef",
     isDirectory |-> "undef", invoke |-> FALSE, cmd |-> FALSE, rawCmd |-> <<>>,
     keepOnFailure |-> "undef", dyn |-> {}]

\* d <- [e1, e2], e1 <- [sh], e2 <- [sh]: the diamond; every rule has an
\* inline callable, e1's callable may ask the builder for e2.
DiamondRules ==
    [n \in Names |->
       CASE n = "d"  -> MkRule(<<"e1", "e2">>, "undef", "undef", TRUE, FALSE, "undef", {})
         [] n = "e1" -> MkRule(<<"sh">>, "undef", "undef", TRUE, FALSE, "undef", {"e2"})
         [] n = "e2" -> MkRule(<<"sh">>, "undef", "undef", TRUE, FALSE, "undef", {})
         [] OTHER    -> MkRule(<<>>, "auto", "undef", TRUE, FALSE, "undef", {})]

\* typed targets over a source that has no rule
TypedRules ==
    [n \in Names |->
       CASE n = "d"  -> MkRule(<<"e1", "e2", "e1">>, "file", "undef", TRUE, FALSE, "undef", {})
         [] n = "e1" -> MkRule(<<"sh">>, "phony", "undef", TRUE, FALSE, "undef", {})
         [] n = "e2" -> MkRule(<<"sh">>, "directory", "undef", FALSE, TRUE, "false", {})
         [] OTHER    -> NoRule]

\* rules with conflicting fields, and a rule without any build step
ConflictRules ==
    [n \in Names |->
       CASE n = "d"  -> MkRule(<<"e1", "e2">>, "undef", "undef", FALSE, FALSE, "undef", {})
         [] n = "e1" -> MkRule(<<"sh">>, "file", "undef", TRUE, TRUE, "undef", {})
         [] n = "e2" -> MkRule(<<>>, "directory", "true", TRUE, FALSE, "undef", {})
         [] OTHER    -> NoRule]

\* d <- [e1, e2] where e1 itself depends on e2; every failure file policy
\* that the other tables leave out
NestedRules ==
    [n \in Names |->
       CASE n = "d"  -> MkRule(<<"e1", "e2">>, "file", "undef", TRUE, FALSE, "true", {})
         [] n = "e1" -> MkRule(<<"e2">>, "undef", "undef", TRUE, FALSE, "undef", {})
         [] n = "e2" -> MkRule(<<>>, "undef", "undef", TRUE, FALSE, "false", {})
         [] OTHER    -> NoRule]

\* the deprecated isDirectory field on its own, a phony target over it, and
\* a directory rule without any build step
LegacyRules ==
    [n \in Names |->
       CASE n = "d"  -> MkRule(<<"e1", "e2">>, "phony", "undef", TRUE, FALSE, "undef", {})
         [] n = "e1" -> MkRule(<<>>, "undef", "true", TRUE, FALSE, "undef", {})
         [] n = "e2" -> MkRule(<<"sh">>, "directory", "undef", FALSE, FALSE, "undef", {})
         [] OTHER    -> NoRule]

\* the source has a rule and a prerequisite of its own; the command of e1
\* has an argument 'tdb:targets', which is no directive
CommandRules ==
    [n \in Names |->
       CASE n = "d"  -> MkRule(<<"e1">>, "undef", "undef", TRUE, FALSE, "undef", {})
         [] n = "e1" -> [MkRule(<<"sh">>, "file", "undef", FALSE, TRUE, "false", {})
                           EXCEPT !.rawCmd = << <<"cc">>, <<"tdb:", "targets">> >>]
         [] n = "sh" -> MkRule(<<"e2">>, "undef", "undef", TRUE, FALSE, "undef", {})
         [] OTHER    -> NoRule]

RuleSets ==
    {DiamondRules, TypedRules, ConflictRules, NestedRules, LegacyRules, CommandRules}

\* e1 <- [e2] and e2 <- [e1]: a cycle below d, next to a missing source
CycleRules ==
    [n \in Names |->
       CASE n = "d"  -> MkRule(<<"sh", "e1">>, "undef", "undef", TRUE, FALSE, "undef", {})
         [] n = "e1" -> MkRule(<<"e2">>, "undef", "undef", TRUE, FALSE, "undef", {})
         [] n = "e2" -> MkRule(<<"e1">>, "undef", "undef", TRUE, FALSE, "undef", {})
         [] OTHER    -> NoRule]

\* e2 lists itself as a prerequisite; the callable of e1 awaits
\* ctx.builder.build("e1", ctx)
SelfRules ==
    [n \in Names |->
       CASE n = "d"  -> MkRule(<<"e1">>, "undef", "undef", TRUE, FALSE, "undef", {})
         [] n = "e1" -> MkRule(<<>>, "undef", "undef", TRUE, FALSE, "undef", {"e1"})
         [] n = "e2" -> MkRule(<<"e2">>, "undef", "undef", TRUE, FALSE, "undef", {})
         [] OTHER    -> NoRule]

\* BuilderOptions.globalPrerequisiteNames
GlobalPrereqSets == {<<>>, <<"sh">>}

\* the callable of d asks the builder for e2 and does not wait for it
ForkRules ==
    [n \in Names |->
       CASE n = "d"  -> MkRule(<<"e1">>, "undef", "undef", TRUE, FALSE, "undef", {"e2"})
         [] n = "e1" -> MkRule(<<"sh">>, "undef", "undef", TRUE, FALSE, "undef", {})
         [] n = "e2" -> MkRule(<<>>, "undef", "undef", TRUE, FALSE, "undef", {})
         [] OTHER    -> NoRule]

\* ------------------------------------------------------------ command lines
\* BuildParameters as parseCommandLineArgs makes them; unrecognized = TRUE
\* stands for an argument list with an argument that starts with "-" and is
\* none of the known options.  defaultTargetNames is empty.
Args(buildOperation, targetNames, unrecognized) ==
    [buildOperation |-> buildOperation, targetNames |-> targetNames,
     unrecognized |-> unrecognized]

\* the empty argument list
NoArgs == Args("build", <<>>, FALSE)

CommandLines ==
    { Args("build", <<"d">>, FALSE),
      Args("build", <<"e1", "e2", "e1">>, FALSE),
      Args("build", <<>>, FALSE),
      Args("list-targets", <<>>, FALSE),
      Args("describe-targets", <<>>, FALSE),
      Args("print-help", <<"d">>, FALSE),
      Args("build", <<"d">>, TRUE) }

\* the callers of join(): code outside the Builder, and the finally handler
\* of runResultToCommandLineResult
Joiners == {"caller", "finally"}

\* allBuildPromisesSettled is a chain with one link per promise build() has
\* created; a chain is identified by the number of its links, and the chain
\* without links is RESOLVED_VOID_PROMISE
RESOLVED_VOID_PROMISE == 0

\* ---------------------------------------------------------------- the state
VARIABLES
    buildRules,        \* Builder.buildRules
    globalPrereqs,     \* Builder.globalPrereqs
    concurrencyMode,   \* Builder.concurrencyMode
    fs,                \* the filesystem: name -> [kind, mtime]
    buildPromises,     \* Builder.buildPromises: name -> promise id, 0 = undefined
    nextId,            \* identity of the next promise created by build()
    handles,           \* the <<name, promise id>> pairs build() has returned
    pstate,            \* state of the promise of each name
    result,            \* BuildResult.mtime a fulfilled promise carries
    err,               \* the error a rejected promise carries
    pc,                \* position of the task behind each promise
    parentTrace,       \* ctx.buildRuleTrace given to the build() that made the promise
    targetMtime,       \* buildTarget's targetMtime (read before the prereqs are built)
    idx,               \* serial buildAll: position in the prerequisite list
    requested,         \* serial buildAll: build() of position idx has been called
    latest,            \* buildAll's running maximum
    firstRej,          \* the prerequisite whose rejection rejected the buildAll of the target
    invoked,           \* number of times the build callable of each name was invoked
    ran,               \* the build step of the target ran (the staleness test was true)
    dynDone,           \* names the running callable has already requested
    nreq,              \* number of outside build() calls so far
    argv,              \* the command line processCommandLine is given, as parsed
    reqLog,            \* the build() calls each buildAll has made, in order
    clPc,              \* position of processCommandLine
    exitCode,          \* the number runResultToCommandLineResult's handlers returned
    joinPc,            \* state of the promise of each join() call
    joinSeen,          \* join's settlePromise: the chain identity it waits on
    rejoined,          \* join found new tasks spawned while it waited, and joined again
    hookCalls,         \* number of times fetchGeneratedTargets was invoked
    generatedTargets,  \* what fetchGeneratedTargets returned the last time
    allTargets,        \* the map fetchAllBuildRules returned the last time
    runLog,            \* buildParams.concurrencyMode of the run() calls made from outside
    mtimeFunction,     \* BuilderOptions.mtimeFunction: path -> what it yields
    fs0,               \* the filesystem as it was when the Builder was constructed
    rawCmd,            \* rewriteCommand: the command vector it is given
    ctxPrereqNames,    \* rewriteCommand: ctx.prereqNames
    rewritten,         \* rewriteCommand: what it returned or threw
    mtimeArgs,         \* mtimeR: the tree under the path it is given, and onNotFound
    mtimeResult,       \* mtimeR: what its promise settled with
    cmdLines,          \* parseCommandLineArgs: the argument vectors of two calls
    parsedParams        \* parseCommandLineArgs: what the promise of each call settled with

vars == <<buildRules, globalPrereqs, concurrencyMode, fs, buildPromises, nextId,
          handles, pstate, result, err, pc, parentTrace, targetMtime, idx,
          requested, latest, firstRej, invoked, ran, dynDone, nreq,
          argv, reqLog, clPc, exitCode, joinPc, joinSeen, rejoined,
          hookCalls, generatedTargets, allTargets, runLog,
          mtimeFunction, fs0, rawCmd, ctxPrereqNames, rewritten, mtimeArgs, mtimeResult,
          cmdLines, parsedParams>>

\* ------------------------------------------------------------ pure helpers
InSeq(seq, x) == \E i \in 1..Len(seq) : seq[i] = x

IndexOf(seq, x) == CHOOSE i \in 1..Len(seq) : seq[i] = x

\* variant: of a name that occurs twice the last occurrence is kept
deduplicateKeepLast(stuff) ==
    LET RECURSIVE go(_)
        go(i) == IF i > Len(stuff) THEN <<>>
                 ELSE (IF \E j \in (i+1)..Len(stuff) : stuff[j] = stuff[i]
                       THEN <<>> ELSE <<stuff[i]>>) \o go(i + 1)
    IN go(1)

\* Remove duplicates from a list, keeping the first occurrence
deduplicate(stuff) ==
    LET RECURSIVE go(_)
        go(i) == IF i > Len(stuff) THEN <<>>
                 ELSE (IF \E j \in 1..(i-1) : stuff[j] = stuff[i]
                       THEN <<>> ELSE <<stuff[i]>>) \o go(i + 1)
    IN go(1)

\* errors: a BuildError carries tdBuildTrace, a plain Error does not
NoErr == [kind |-> "none", traced |-> FALSE, trace |-> <<>>]

BuildError(kind, trace) == [kind |-> kind, traced |-> TRUE, trace |-> trace]

PlainError == [kind |-> "Callable", traced |-> FALSE, trace |-> <<>>]

hasBuildTrace(e) == e.traced

\* filesystem entries
Absent == [kind |-> "none", mtime |-> NegInf]

Entry(kind, m) == [kind |-> kind, mtime |-> m]

\* what can be found under a name
Entries == {Absent} \cup {Entry(k, m) : k \in {"file", "dir"}, m \in Mtimes}

\* mtimeR(path, onNotFound) with a numeric onNotFound
mtimeR(path, onNotFound) ==
    IF fs[path].kind = "none" THEN onNotFound ELSE fs[path].mtime

\* a Builder made without the mtimeFunction option: every path is left to
\* the filesystem
NoMtimeFunction == [n \in Names |-> Undefined]

\* the mtime the Builder goes by: what the alternate mtime function yields,
\* and the filesystem's mtimeR where that is undefined
effectiveMtime(path, onNotFound) ==
    IF mtimeFunction[path] # Undefined THEN mtimeFunction[path]
    ELSE mtimeR(path, onNotFound)

\* ------------------------------------------------------- rule interpretation
getRuleTargetTypeThrows(rule) ==
    rule.isDirectory # "undef" /\ rule.targetType # "undef"

getRuleTargetType(rule) ==
    IF rule.targetType # "undef" THEN rule.targetType ELSE "auto"

getRuleBuildFunctionThrows(rule) == rule.cmd /\ rule.invoke

\* getRuleBuildFunction(rule, ctx) !== undefined
HasBuildFunction(rule) == rule.invoke \/ rule.cmd

\* variant: the artifact is removed whatever keepOnFailure says
getFailureFileActionAlwaysDelete(rule) == "delete"

\* variant: the artifact is kept only when keepOnFailure is true
getFailureFileActionUnlessKept(rule) ==
    IF rule.keepOnFailure = "true" THEN "keep" ELSE "delete"

getFailureFileAction(rule) ==
    IF rule.keepOnFailure # "undef"
    THEN (IF rule.keepOnFailure = "true" THEN "keep" ELSE "delete")
    ELSE (IF rule.targetType = "file" THEN "delete" ELSE "keep")

\* variant: a target that is a global prerequisite is not made a prerequisite
\* of itself
PrereqNamesWithoutSelf(t) ==
    IF t = TopLevel THEN argv.targetNames
    ELSE buildRules[t].prereqs \o SelectSeq(globalPrereqs, LAMBDA g : g # t)

\* variant: the global prerequisites come first
PrereqNamesGlobalsFirst(t) ==
    IF t = TopLevel THEN argv.targetNames ELSE globalPrereqs \o buildRules[t].prereqs

\* prereqNames of buildTarget: explicit prerequisites, then the global ones
\* (for run() the names are buildParams.targetNames)
PrereqNames(t) ==
    IF t = TopLevel THEN argv.targetNames ELSE buildRules[t].prereqs \o globalPrereqs

\* the list buildAll works on
PrereqList(t) == deduplicate(PrereqNames(t))

\* buildRuleTrace of buildTarget
buildRuleTrace(t) == Append(parentTrace[t], t)

TargetType(t) == getRuleTargetType(buildRules[t])

\* variant: a prerequisite exactly as old as the target also triggers the build step
StaleGe(tm, latestPrereqMtime) == tm = NegInf \/ latestPrereqMtime >= tm

\* variant: only a missing target is built, the prerequisites' mtimes are not compared
StaleIgnoresPrereqs(tm, latestPrereqMtime) == tm = NegInf

\* the staleness test of buildTarget
Stale(tm, latestPrereqMtime) == tm = NegInf \/ latestPrereqMtime > tm

\* ---------------------------------------------------------- rewriteCommand
\* a line terminator, which `.` does not match; `$` matches at the end of the
\* string only
LineBreak == "\n"

\* .* matches the pieces of arg from position k up to the end of the string
DotStarFrom(arg, k) == \A i \in k..Len(arg) : arg[i] # LineBreak

\* /^tdb:literal:(.*)$/ matches
IsTdbLiteral(arg) ==
    Len(arg) >= 2 /\ arg[1] = "tdb:" /\ arg[2] = "literal:" /\ DotStarFrom(arg, 3)

\* /^tdb:.*$/ matches
IsTdb(arg) == Len(arg) >= 1 /\ arg[1] = "tdb:" /\ DotStarFrom(arg, 2)

\* the arguments commands are made of
CmdArgs ==
    { <<"gcc">>,                                   \* no directive
      <<"-o", "tdb:", "target">>,                  \* "tdb:" not at the start
      TdbTarget, TdbPrereq, TdbPrereqs,
      <<"tdb:", "literal:">>,                      \* the empty literal
      <<"tdb:", "literal:", "tdb:", "target">>,    \* a literal that looks like a directive
      <<"tdb:", "targets">>,                       \* no directive of that name
      <<"tdb:", "literal:", "a", LineBreak, "b">>, \* a literal of two lines
      <<"tdb:", "target", LineBreak>> }            \* a directive with a line break after it

\* ctx.prereqNames: explicit, then global prerequisites, duplicates and all
PrereqNameLists == {<<>>, <<"e1">>, <<"e1", "sh", "e1">>}

\* the BuildContext rewriteCommand is given
Ctx(prereqNames) ==
    [targetName |-> <<"d">>,
     prereqNames |-> [i \in 1..Len(prereqNames) |-> <<prereqNames[i]>>],
     buildRuleTrace |-> <<"root", "d">>]

NotRewritten == [state |-> "none", args |-> <<>>, err |-> NoErr]

Returned(args) == [state |-> "returned", args |-> args, err |-> NoErr]

Thrown(e) == [state |-> "thrown", args |-> <<>>, err |-> e]

\* rewriteCommand(cmd, ctx): the loop over the arguments; the patterns are
\* tried in the order of the source, and a throw ends the loop
rewriteCommand(cmd, ctx) ==
    LET RECURSIVE go(_, _)
        go(i, out) ==
          IF i > Len(cmd) THEN Returned(out)
          ELSE LET arg == cmd[i] IN
            IF IsTdbLiteral(arg) THEN go(i + 1, Append(out, SubSeq(arg, 3, Len(arg))))
            ELSE IF arg = TdbTarget THEN go(i + 1, Append(out, ctx.targetName))
            ELSE IF arg = TdbPrereq
            THEN (IF Len(ctx.prereqNames) < 1
                  THEN Thrown(BuildError("NoPrereq", ctx.buildRuleTrace))
                  ELSE go(i + 1, Append(out, ctx.prereqNames[1])))
            ELSE IF arg = TdbPrereqs
            THEN go(i + 1, out \o ctx.prereqNames)
            ELSE IF IsTdb(arg)
            THEN Thrown(BuildError("UnknownDirective", ctx.buildRuleTrace))
            ELSE go(i + 1, Append(out, arg))
    IN go(1, <<>>)

\* ------------------------------------------------ mtimeR on a directory tree
\* What Deno.stat and Deno.readDir find under a path and below it.  A node is
\* a file, a directory with the entries readDir lists, or "none": a path
\* stat does not find, which as an entry of a directory is a dangling
\* symbolic link or an entry removed after readDir listed it.  stat reports
\* an mtime for every file and directory.
ChildNames == <<"a", "b">>

\* no entry of that name
Unlisted == [kind |-> "unlisted", mtime |-> NegInf, kids |-> <<>>]

Dangling == [kind |-> "none", mtime |-> NegInf, kids |-> <<>>]

File(m) == [kind |-> "file", mtime |-> m, kids |-> <<>>]

Dir(m, kids) == [kind |-> "dir", mtime |-> m, kids |-> kids]

\* what a directory of files holds under a name
FlatEntries == {Unlisted, Dangling} \cup {File(m) : m \in Mtimes}

FlatDirs == {Dir(m, kids) : m \in Mtimes, kids \in [1..Len(ChildNames) -> FlatEntries]}

\* directories of files and of directories of files
Dirs == {Dir(m, kids) : m \in Mtimes, kids \in [1..Len(ChildNames) -> FlatEntries \cup FlatDirs]}

\* what may be under the path mtimeR is given
Trees == {Dangling} \cup {File(m) : m \in Mtimes} \cup Dirs

\* onNotFound: a number, or "error"
OnNotFoundNumber(n) == [error |-> FALSE, value |-> n]

OnNotFoundError == [error |-> TRUE, value |-> 0]

OnNotFounds == {OnNotFoundError, OnNotFoundNumber(NegInf), OnNotFoundNumber(PosInf)}

NotCalled == [state |-> "none", value |-> 0]

MtimeReturned(mt) == [state |-> "returned", value |-> mt]

\* the promise rejects with the NotFound error of Deno.stat
MtimeNotFound == [state |-> "thrown", value |-> 0]

\* variant: the entries of a directory are not descended into
mtimeROfShallow(root, onNotFound, returnInfinityIfGtThis) ==
    IF root.kind = "none"
    THEN (IF ~onNotFound.error THEN MtimeReturned(onNotFound.value) ELSE MtimeNotFound)
    ELSE IF root.mtime > returnInfinityIfGtThis THEN MtimeReturned(PosInf)
    ELSE LET listed == {i \in 1..Len(ChildNames) : root.kind = "dir" /\ root.kids[i] # Unlisted}
             one(i) == IF root.kids[i].kind = "none"
                       THEN (IF ~onNotFound.error THEN MtimeReturned(onNotFound.value)
                             ELSE MtimeNotFound)
                       ELSE MtimeReturned(root.kids[i].mtime)
         IN IF \E i \in listed : one(i).state = "thrown" THEN MtimeNotFound
            ELSE MtimeReturned(LET S == {root.mtime} \cup {one(i).value : i \in listed}
                               IN CHOOSE x \in S : \A y \in S : y <= x)

\* mtimeR(path, onNotFound, returnInfinityIfGtThis) with root under the path:
\* stat, then for a directory the chain dp over the entries of readDir, each
\* link of which calls mtimeR with the same onNotFound; a link that rejects
\* rejects the chain
mtimeROf(root, onNotFound, returnInfinityIfGtThis) ==
    LET RECURSIVE go(_)
        RECURSIVE chain(_, _, _)
        go(node) ==
          IF node.kind = "none"
          THEN (IF ~onNotFound.error THEN MtimeReturned(onNotFound.value) ELSE MtimeNotFound)
          ELSE IF node.mtime > returnInfinityIfGtThis THEN MtimeReturned(PosInf)
          ELSE IF node.kind = "dir" THEN chain(node, 1, node.mtime)
          ELSE MtimeReturned(node.mtime)
        chain(node, i, latestSoFar) ==
          IF i > Len(ChildNames) THEN MtimeReturned(latestSoFar)
          ELSE IF node.kids[i] = Unlisted THEN chain(node, i + 1, latestSoFar)
          ELSE LET mt == go(node.kids[i])
               IN IF mt.state = "thrown" THEN mt
                  ELSE chain(node, i + 1, Max(latestSoFar, mt.value))
    IN go(root)

\* ------------------------------------------------- parseCommandLineArgs
\* Logger.ts
VERBOSITY_ERRORS == 50

VERBOSITY_WARNINGS == 100

VERBOSITY_INFO == 200

\* BuilderOptions.defaultTargetNames of a Builder made without that option
defaultTargetNames == <<>>

\* An argument is the sequence of the pieces the tests of
\* parseCommandLineArgs tell apart: <<"--verbosity=", "200">> is the string
\* "--verbosity=200", <<"src", "\\", "e1">> is the string "src\e1".
Backslash == "\\"

\* the pieces that begin with "-"
DashPieces ==
    {"-", "-v", "-q", "--list-targets", "--describe-targets", "--help", "--serial",
     "--parallel", "--verbosity="}

\* the pieces \d+ matches, and the number unary plus makes of each
DigitPieces == {"50", "200"}

NumberOf(digits) == IF digits = "50" THEN 50 ELSE 200

\* /--verbosity=(\d+)$/.exec(arg) != null: the pattern is not anchored at the
\* start of the argument
VerbosityMatch(arg) ==
    /\ Len(arg) >= 2
    /\ arg[Len(arg) - 1] = "--verbosity="
    /\ arg[Len(arg)] \in DigitPieces

\* arg.startsWith("-")
StartsWithDash(arg) == Len(arg) >= 1 /\ arg[1] \in DashPieces

\* arg.replace(/\\/g, '/')
Slashed(arg) == [i \in 1..Len(arg) |-> IF arg[i] = Backslash THEN "/" ELSE arg[i]]

\* one of the first eight branches of the loop is taken
IsOption(arg) ==
    \/ arg \in {<<"--list-targets">>, <<"--describe-targets">>, <<"--help">>,
                <<"--serial">>, <<"--parallel">>, <<"-v">>, <<"-q">>}
    \/ VerbosityMatch(arg)

\* variant: once an operation is chosen, a later operation flag is ignored
setOptionKeepsOperation(p, arg) ==
    IF arg \in {<<"--list-targets">>, <<"--describe-targets">>, <<"--help">>}
    THEN (IF p.buildOperation # "build" THEN p
          ELSE [p EXCEPT !.buildOperation =
                   CASE arg = <<"--list-targets">> -> "list-targets"
                     [] arg = <<"--describe-targets">> -> "describe-targets"
                     [] OTHER -> "print-help"])
    ELSE IF arg = <<"--serial">> THEN [p EXCEPT !.concurrencyMode = "serial"]
    ELSE IF arg = <<"--parallel">> THEN [p EXCEPT !.concurrencyMode = "parallel"]
    ELSE IF arg = <<"-v">> THEN [p EXCEPT !.verbosity = VERBOSITY_INFO]
    ELSE IF arg = <<"-q">> THEN [p EXCEPT !.verbosity = VERBOSITY_ERRORS]
    ELSE [p EXCEPT !.verbosity = NumberOf(arg[Len(arg)])]

\* the assignment the branch of an option makes to the locals p
setOption(p, arg) ==
    IF arg = <<"--list-targets">> THEN [p EXCEPT !.buildOperation = "list-targets"]
    ELSE IF arg = <<"--describe-targets">> THEN [p EXCEPT !.buildOperation = "describe-targets"]
    ELSE IF arg = <<"--help">> THEN [p EXCEPT !.buildOperation = "print-help"]
    ELSE IF arg = <<"--serial">> THEN [p EXCEPT !.concurrencyMode = "serial"]
    ELSE IF arg = <<"--parallel">> THEN [p EXCEPT !.concurrencyMode = "parallel"]
    ELSE IF arg = <<"-v">> THEN [p EXCEPT !.verbosity = VERBOSITY_INFO]
    ELSE IF arg = <<"-q">> THEN [p EXCEPT !.verbosity = VERBOSITY_ERRORS]
    ELSE [p EXCEPT !.verbosity = NumberOf(arg[Len(arg)])]

\* the promise of a call that has not been made
NotParsed == [state |-> "none"]

\* Promise.resolve({buildOperation, targetNames, ...})
ParsedAs(p) ==
    [state |-> "resolved", buildOperation |-> p.buildOperation,
     targetNames |-> p.targetNames, targetsSpecifiedVia |-> p.targetsSpecifiedVia,
     verbosity |-> p.verbosity, concurrencyMode |-> p.concurrencyMode]

\* Promise.reject(new Error(`Unrecognized argument: ${arg}`))
Unrecognized(arg) == [state |-> "rejected", arg |-> arg]

\* parseCommandLineArgs(args) of a Builder whose concurrencyMode is mode
parseCommandLineArgs(args, mode) ==
    LET RECURSIVE go(_, _)
        go(i, p) ==
          IF i > Len(args)
          THEN (IF Len(p.targetNames) = 0
                THEN ParsedAs([p EXCEPT !.targetNames = defaultTargetNames,
                                        !.targetsSpecifiedVia = "(default targets)"])
                ELSE ParsedAs(p))
          ELSE LET arg == args[i] IN
            IF IsOption(arg) THEN go(i + 1, setOption(p, arg))
            ELSE IF StartsWithDash(arg) THEN Unrecognized(arg)
            ELSE go(i + 1, [p EXCEPT !.targetNames = Append(@, Slashed(arg))])
    IN go(1, [buildOperation |-> "build", targetNames |-> <<>>,
              targetsSpecifiedVia |-> "command-line",
              verbosity |-> VERBOSITY_WARNINGS, concurrencyMode |-> mode])

\* the arguments command lines are made of
ArgSet ==
    { <<"--list-targets">>, <<"--help">>, <<"--serial">>, <<"--parallel">>,
      <<"-q">>, <<"--verbosity=", "200">>,
      <<"-", "x">>,                 \* no option of that name
      <<"d">>,
      <<"src", Backslash, "e1">> }  \* a target name as Windows completes it

\* the argument vectors of at most MaxArgs arguments
ArgVectors == UNION {[1..k -> ArgSet] : k \in 0..MaxArgs}

\* the same arguments in another order
Rearrangements(args) ==
    LET n == Len(args)
        perms == {f \in [1..n -> 1..n] : \A i, j \in 1..n : i # j => f[i] # f[j]}
    IN {[i \in 1..n |-> args[f[i]]] : f \in perms}

\* the BuildContext buildTarget makes for t
TargetCtx(t) ==
    [targetName |-> <<t>>,
     prereqNames |-> [i \in 1..Len(PrereqNames(t)) |-> <<PrereqNames(t)[i]>>],
     buildRuleTrace |-> buildRuleTrace(t)]

\* the error getRuleBuildFunction(rule, ctx) throws for the rule of t, NoErr
\* if it returns: both invoke and cmd, or a command rewriteCommand rejects
getRuleBuildFunctionError(t) ==
    IF getRuleBuildFunctionThrows(buildRules[t])
    THEN BuildError("Config", buildRuleTrace(t))
    ELSE IF buildRules[t].invoke \/ ~buildRules[t].cmd THEN NoErr
    ELSE rewriteCommand(buildRules[t].rawCmd, TargetCtx(t)).err

\* ------------------------------------------------------- the rule registry
\* no rule under any name: the `rules` of a Builder made without any, and
\* what fetchGeneratedTargets returns unless it is overridden
NoRules == [n \in Names |-> NoRule]

\* Builder.fetchGeneratedTargets as the class defines it
fetchGeneratedTargets == NoRules

\* Builder.allTargetsPromise: initialized to undefined, and assigned nowhere
allTargetsPromise == "undefined"

\* variant: a name that has a static rule keeps it
fetchAllBuildRulesStaticWins(static, generated) ==
    [n \in Names |-> IF static[n].present THEN static[n] ELSE generated[n]]

\* the map fetchAllBuildRules makes: the static rules are copied, then every
\* generated rule is assigned under its name
fetchAllBuildRules(static, generated) ==
    LET copied == [n \in Names |-> static[n]]
    IN [n \in Names |-> IF generated[n].present THEN generated[n] ELSE copied[n]]

\* a call of fetchAllBuildRules during which the hook returns g
FetchAllBuildRulesCall(g) ==
    IF allTargetsPromise # "undefined"
    THEN UNCHANGED <<hookCalls, generatedTargets, allTargets>>
    ELSE /\ hookCalls' = hookCalls + 1
         /\ generatedTargets' = g
         /\ allTargets' = fetchAllBuildRules(buildRules, g)

\* ------------------------------------------------------------- build()
\* variant: build() without the memo test
MemoHitNever(n) == FALSE

\* variant: a rejected promise is not reused, the target is tried again
MemoHitUnlessRejected(n) == buildPromises[n] # 0 /\ pstate[n] # "rejected"

\* the memo test at the head of build()
MemoHit(n) == buildPromises[n] # 0

\* the names of a list for which build() creates a new promise
Fresh(names) == SelectSeq(names, LAMBDA n : ~MemoHit(n))

\* build() called for each name of a duplicate-free list, in order, with the
\* caller's context; pcBase is pc as the calling step leaves it.  Every
\* promise build() creates starts with a fetchBuildRuleForTarget, hence a
\* fetchAllBuildRules, of its own.
BuildCalls(names, trace, pcBase) ==
    LET fresh == Fresh(names)
        isFresh(n) == InSeq(fresh, n)
        newPromises == [n \in Names |->
                          IF isFresh(n) THEN nextId + IndexOf(fresh, n) - 1
                          ELSE buildPromises[n]]
    IN /\ buildPromises' = newPromises
       /\ nextId' = nextId + Len(fresh)
       /\ handles' = handles \cup {<<names[i], newPromises[names[i]]>> : i \in 1..Len(names)}
       /\ pstate' = [n \in Callers |-> IF isFresh(n) THEN "pending" ELSE pstate[n]]
       /\ pc' = [n \in Callers |-> IF isFresh(n) THEN "fetchRule" ELSE pcBase[n]]
       /\ parentTrace' = [n \in Callers |-> IF isFresh(n) THEN trace ELSE parentTrace[n]]
       /\ IF fresh = <<>> \/ allTargetsPromise # "undefined"
          THEN UNCHANGED <<hookCalls, generatedTargets, allTargets>>
          ELSE /\ hookCalls' = hookCalls + Len(fresh)
               /\ generatedTargets' = fetchGeneratedTargets
               /\ allTargets' = fetchAllBuildRules(buildRules, fetchGeneratedTargets)

\* ------------------------------------------------------ settling a promise
Fulfil(t, m) ==
    /\ pstate' = [pstate EXCEPT ![t] = "fulfilled"]
    /\ result' = [result EXCEPT ![t] = m]
    /\ pc' = [pc EXCEPT ![t] = "done"]
    /\ UNCHANGED <<err, firstRej>>

\* variant: a target whose buildAll failed aborts the other builds it had requested
RejectViaCancelling(t, e, p) ==
    LET aborted == IF p = NoName THEN {}
                   ELSE {n \in Names : /\ InSeq(PrereqList(t), n)
                                       /\ n # p
                                       /\ pstate[n] = "pending"}
    IN /\ pstate' = [n \in Callers |-> IF n = t \/ n \in aborted THEN "rejected" ELSE pstate[n]]
       /\ err' = [n \in Callers |-> IF n = t \/ n \in aborted THEN e ELSE err[n]]
       /\ pc' = [n \in Callers |-> IF n = t \/ n \in aborted THEN "done" ELSE pc[n]]
       /\ firstRej' = [c \in Callers |->
                         IF c = t THEN p
                         ELSE IF /\ pc[c] = "waitPrereqs"
                                 /\ concurrencyMode = "parallel"
                                 /\ firstRej[c] = NoName
                                 /\ InSeq(PrereqList(c), t)
                         THEN t ELSE firstRej[c]]
       /\ UNCHANGED result

\* a rejection reaches the Promise.all of every parallel buildAll that waits
\* on the promise; the first rejection to arrive is the one Promise.all keeps
RejectVia(t, e, p) ==
    /\ pstate' = [pstate EXCEPT ![t] = "rejected"]
    /\ err' = [err EXCEPT ![t] = e]
    /\ pc' = [pc EXCEPT ![t] = "done"]
    /\ firstRej' = [c \in Callers |->
                      IF c = t THEN p
                      ELSE IF /\ pc[c] = "waitPrereqs"
                              /\ concurrencyMode = "parallel"
                              /\ firstRej[c] = NoName
                              /\ InSeq(PrereqList(c), t)
                      THEN t ELSE firstRej[c]]
    /\ UNCHANGED result

\* the task of t fails with an error of its own
Reject(t, e) == RejectVia(t, e, NoName)

\* variant: the error is wrapped again with the trace of the awaiting target
PropagatedRewrapped(t, e) == BuildError(e.kind, buildRuleTrace(t))

\* what the await of buildAll rethrows when a prerequisite rejected with e:
\* neither buildAll nor buildTarget catches, so it is e itself
Propagated(t, e) == e

\* ------------------------------------------------------------------- Init
\* the disks a Builder is started on
Disk(sh, e1, e2, d) ==
    [n \in Names |-> CASE n = "sh" -> sh [] n = "e1" -> e1 [] n = "e2" -> e2 [] OTHER -> d]

InitFs ==
    LET old == Entry("file", 0)
        new == Entry("file", MaxTime)
    IN { Disk(Absent, Absent, Absent, Absent),     \* nothing exists
         Disk(old, Absent, Absent, Absent),        \* only the source exists
         Disk(old, old, old, old),                 \* everything equally old
         Disk(new, old, old, old),                 \* the source is newer
         Disk(old, old, old, new),                 \* the final target is newest
         Disk(old, Absent, Entry("dir", 0), new) } \* e2 is a directory, e1 is missing

\* a Builder just constructed: nothing requested, nothing joined
NothingRequested ==
    /\ fs0 = fs
    /\ buildPromises = [n \in Names |-> 0]
    /\ nextId = 1
    /\ handles = {}
    /\ pstate = [n \in Callers |-> "none"]
    /\ result = [n \in Callers |-> NegInf]
    /\ err = [n \in Callers |-> NoErr]
    /\ pc = [n \in Callers |-> "idle"]
    /\ parentTrace = [n \in Callers |-> <<>>]
    /\ targetMtime = [n \in Names |-> NegInf]
    /\ idx = [n \in Callers |-> 1]
    /\ requested = [n \in Callers |-> FALSE]
    /\ latest = [n \in Callers |-> NegInf]
    /\ firstRej = [n \in Callers |-> NoName]
    /\ invoked = [n \in Names |-> 0]
    /\ ran = [n \in Names |-> FALSE]
    /\ dynDone = [n \in Names |-> {}]
    /\ nreq = 0
    /\ reqLog = [n \in Callers |-> <<>>]
    /\ clPc = "idle"
    /\ exitCode = 0
    /\ joinPc = [j \in Joiners |-> "idle"]
    /\ joinSeen = [j \in Joiners |-> RESOLVED_VOID_PROMISE]
    /\ rejoined = [j \in Joiners |-> FALSE]
    /\ hookCalls = 0
    /\ generatedTargets = NoRules
    /\ allTargets = NoRules
    /\ runLog = <<>>

\* parseCommandLineArgs has not been called
NothingParsed ==
    /\ cmdLines = <<<<>>, <<>>>>
    /\ parsedParams = <<NotParsed, NotParsed>>

\* mtimeR has not been called on a tree
NothingStatted ==
    /\ mtimeArgs = [root |-> Dangling, onNotFound |-> OnNotFoundError]
    /\ mtimeResult = NotCalled

\* no command is being rewritten
NothingRewritten ==
    /\ rawCmd = <<>>
    /\ ctxPrereqNames = <<>>
    /\ rewritten = NotRewritten

Constructed ==
    /\ NothingRequested
    /\ NothingRewritten
    /\ NothingParsed
    /\ NothingStatted

\* the Builder used as a library: build() is called from outside
Init ==
    /\ buildRules \in RuleSets
    /\ globalPrereqs \in GlobalPrereqSets
    /\ concurrencyMode \in {"serial", "parallel"}
    /\ fs \in InitFs
    /\ argv = NoArgs
    /\ mtimeFunction = NoMtimeFunction
    /\ Constructed

\* ---------------------------------------------------------------- actions
\* variables no build() call and no settlement touches
TaskLocals == <<targetMtime, idx, requested, latest, invoked, ran, dynDone, reqLog>>

\* what only the rewriting of a command changes
Rewriting == <<rawCmd, ctxPrereqNames, rewritten>>

\* what only parseCommandLineArgs and mtimeR on a tree change
Parsing == <<cmdLines, parsedParams, mtimeArgs, mtimeResult>>

Config == <<buildRules, globalPrereqs, concurrencyMode, argv, runLog, mtimeFunction, fs0,
            Rewriting, Parsing>>

\* what only join() and processCommandLine() change
Shell == <<clPc, exitCode, joinPc, joinSeen, rejoined>>

Memo == <<buildPromises, nextId, handles, parentTrace, hookCalls, generatedTargets, allTargets>>

\* a caller outside the Builder calls build(n, {buildRuleTrace: ["root"]})
ExternalBuild(n) ==
    /\ nreq < MaxRequests
    /\ nreq' = nreq + 1
    /\ BuildCalls(<<n>>, RootTrace, pc)
    /\ UNCHANGED <<Config, Shell, fs, result, err, firstRej, TaskLocals>>

\* build(): fetchBuildRuleForTarget resolved with targets[targetName], which
\* with the hook as the class defines it is buildRules[targetName].  Without
\* a rule the target is looked up on disk; with one, buildTarget runs up to
\* its first mtime read.
FetchRule(t) ==
    /\ pc[t] = "fetchRule"
    /\ IF ~buildRules[t].present
       THEN /\ pc' = [pc EXCEPT ![t] = "statNoRule"]
            /\ UNCHANGED <<pstate, result, err, firstRej>>
       ELSE IF getRuleTargetTypeThrows(buildRules[t])
       THEN Reject(t, BuildError("Config", buildRuleTrace(t)))
       ELSE /\ pc' = [pc EXCEPT ![t] = "readMtime"]
            /\ UNCHANGED <<pstate, result, err, firstRej>>
    /\ UNCHANGED <<Config, Shell, fs, Memo, TaskLocals, nreq>>

\* build(), rule == null: mtimeR(targetName, "error") settled
StatNoRule(t) ==
    /\ pc[t] = "statNoRule"
    /\ IF mtimeFunction[t] # Undefined \/ fs[t].kind # "none"
       THEN Fulfil(t, effectiveMtime(t, NegInf))
       ELSE Reject(t, BuildError("Missing", parentTrace[t]))
    /\ UNCHANGED <<Config, Shell, fs, Memo, TaskLocals, nreq>>

\* the prerequisites of c that are already rejected when Promise.all subscribes
AlreadyRejected(c) ==
    LET l == PrereqList(c)
        rej == {i \in 1..Len(l) : MemoHit(l[i]) /\ pstate[l[i]] = "rejected"}
    IN IF rej = {} THEN NoName
       ELSE l[CHOOSE i \in rej : \A j \in rej : i <= j]

\* variant: the target's own mtime is always read from the filesystem
InitialTargetMtimeFromDisk(t) ==
    IF TargetType(t) = "phony" THEN NegInf ELSE mtimeR(t, NegInf)

\* variant: the mtime of a phony target is read like any other
InitialTargetMtimeOfPhonyToo(t) == effectiveMtime(t, NegInf)

\* targetMtime as buildTarget first sets it
InitialTargetMtime(t) ==
    IF TargetType(t) = "phony" THEN NegInf ELSE effectiveMtime(t, NegInf)

\* variant: buildTarget starts the builds of all prerequisites at once, whatever the mode
ReadMtimeAllAtOnce(t) ==
    /\ pc[t] = "readMtime"
    /\ targetMtime' = [targetMtime EXCEPT ![t] = InitialTargetMtime(t)]
    /\ idx' = [idx EXCEPT ![t] = 1]
    /\ requested' = [requested EXCEPT ![t] = FALSE]
    /\ latest' = [latest EXCEPT ![t] = NegInf]
    /\ BuildCalls(PrereqList(t), buildRuleTrace(t), [pc EXCEPT ![t] = "waitPrereqs"])
    /\ reqLog' = [reqLog EXCEPT ![t] = @ \o PrereqList(t)]
    /\ firstRej' = [firstRej EXCEPT ![t] = AlreadyRejected(t)]
    /\ UNCHANGED <<Config, Shell, fs, result, err, invoked, ran, dynDone, nreq>>

\* buildTarget: targetMtime read, then buildAll(prereqNames, ctx) is called.
\* Parallel mode calls build() for every name at once; serial mode starts
\* its chain.
ReadMtime(t) ==
    /\ pc[t] = "readMtime"
    /\ targetMtime' = [targetMtime EXCEPT ![t] = InitialTargetMtime(t)]
    /\ idx' = [idx EXCEPT ![t] = 1]
    /\ requested' = [requested EXCEPT ![t] = FALSE]
    /\ latest' = [latest EXCEPT ![t] = NegInf]
    /\ IF concurrencyMode = "serial"
       THEN /\ pc' = [pc EXCEPT ![t] = "waitPrereqs"]
            /\ firstRej' = [firstRej EXCEPT ![t] = NoName]
            /\ UNCHANGED <<Memo, pstate, reqLog>>
       ELSE /\ BuildCalls(PrereqList(t), buildRuleTrace(t), [pc EXCEPT ![t] = "waitPrereqs"])
            /\ reqLog' = [reqLog EXCEPT ![t] = @ \o PrereqList(t)]
            /\ firstRej' = [firstRej EXCEPT ![t] = AlreadyRejected(t)]
    /\ UNCHANGED <<Config, Shell, fs, result, err, invoked, ran, dynDone, nreq>>

\* variant: the chain calls build() for the next name without waiting for
\* the build before it
SerialNextEager(t) ==
    /\ pc[t] = "waitPrereqs"
    /\ concurrencyMode = "serial"
    /\ idx[t] <= Len(PrereqList(t))
    /\ idx' = [idx EXCEPT ![t] = idx[t] + 1]
    /\ BuildCalls(<<PrereqList(t)[idx[t]]>>, buildRuleTrace(t), pc)
    /\ reqLog' = [reqLog EXCEPT ![t] = Append(@, PrereqList(t)[idx[t]])]
    /\ UNCHANGED <<Config, Shell, fs, result, err, firstRej, targetMtime, requested,
                   latest, invoked, ran, dynDone, nreq>>

\* serial buildAll: the chain calls build() for the next name
SerialNext(t) ==
    /\ pc[t] = "waitPrereqs"
    /\ concurrencyMode = "serial"
    /\ ~requested[t]
    /\ idx[t] <= Len(PrereqList(t))
    /\ requested' = [requested EXCEPT ![t] = TRUE]
    /\ BuildCalls(<<PrereqList(t)[idx[t]]>>, buildRuleTrace(t), pc)
    /\ reqLog' = [reqLog EXCEPT ![t] = Append(@, PrereqList(t)[idx[t]])]
    /\ UNCHANGED <<Config, Shell, fs, result, err, firstRej, targetMtime, idx, latest,
                   invoked, ran, dynDone, nreq>>

\* variant: the chain keeps the mtime of the build it awaited last
SerialThenLast(t) ==
    /\ pc[t] = "waitPrereqs"
    /\ concurrencyMode = "serial"
    /\ requested[t]
    /\ LET p == PrereqList(t)[idx[t]] IN
         /\ pstate[p] = "fulfilled"
         /\ latest' = [latest EXCEPT ![t] = result[p]]
    /\ idx' = [idx EXCEPT ![t] = idx[t] + 1]
    /\ requested' = [requested EXCEPT ![t] = FALSE]
    /\ UNCHANGED <<Config, Shell, fs, Memo, pstate, result, err, pc, firstRej,
                   targetMtime, invoked, ran, dynDone, nreq, reqLog>>

\* variant: the chain goes on whenever the awaited build has settled
SerialThenSettled(t) ==
    /\ pc[t] = "waitPrereqs"
    /\ concurrencyMode = "serial"
    /\ requested[t]
    /\ LET p == PrereqList(t)[idx[t]] IN
         /\ pstate[p] \in {"fulfilled", "rejected"}
         /\ latest' = [latest EXCEPT ![t] = Max(latest[t], result[p])]
    /\ idx' = [idx EXCEPT ![t] = idx[t] + 1]
    /\ requested' = [requested EXCEPT ![t] = FALSE]
    /\ UNCHANGED <<Config, Shell, fs, Memo, pstate, result, err, pc, firstRej,
                   targetMtime, invoked, ran, dynDone, nreq, reqLog>>

\* serial buildAll: the awaited build fulfilled; fold its mtime into the maximum
SerialThen(t) ==
    /\ pc[t] = "waitPrereqs"
    /\ concurrencyMode = "serial"
    /\ requested[t]
    /\ LET p == PrereqList(t)[idx[t]] IN
         /\ pstate[p] = "fulfilled"
         /\ latest' = [latest EXCEPT ![t] = Max(latest[t], result[p])]
    /\ idx' = [idx EXCEPT ![t] = idx[t] + 1]
    /\ requested' = [requested EXCEPT ![t] = FALSE]
    /\ UNCHANGED <<Config, Shell, fs, Memo, pstate, result, err, pc, firstRej,
                   targetMtime, invoked, ran, dynDone, nreq, reqLog>>

\* variant: the chain goes on with the next name after a build that rejected
SerialFailGoesOn(t) ==
    /\ pc[t] = "waitPrereqs"
    /\ concurrencyMode = "serial"
    /\ requested[t]
    /\ pstate[PrereqList(t)[idx[t]]] = "rejected"
    /\ idx' = [idx EXCEPT ![t] = idx[t] + 1]
    /\ requested' = [requested EXCEPT ![t] = FALSE]
    /\ UNCHANGED <<Config, Shell, fs, Memo, pstate, result, err, pc, firstRej,
                   targetMtime, latest, invoked, ran, dynDone, nreq, reqLog>>

\* serial buildAll: the awaited build rejected; the rejection passes through
\* buildAll and the await of buildTarget unchanged
SerialFail(t) ==
    /\ pc[t] = "waitPrereqs"
    /\ concurrencyMode = "serial"
    /\ requested[t]
    /\ LET p == PrereqList(t)[idx[t]] IN
         /\ pstate[p] = "rejected"
         /\ RejectVia(t, Propagated(t, err[p]), p)
    /\ UNCHANGED <<Config, Shell, fs, Memo, TaskLocals, nreq>>

\* parallel buildAll: Promise.all rejected with the first rejection it saw
ParallelFail(t) ==
    /\ pc[t] = "waitPrereqs"
    /\ concurrencyMode = "parallel"
    /\ firstRej[t] # NoName
    /\ RejectVia(t, Propagated(t, err[firstRej[t]]), firstRej[t])
    /\ UNCHANGED <<Config, Shell, fs, Memo, TaskLocals, nreq>>

\* variant: parallel buildAll resolves as soon as one build has fulfilled
AllPrereqsBuiltAny(t) ==
    IF concurrencyMode = "serial"
    THEN ~requested[t] /\ idx[t] > Len(PrereqList(t))
    ELSE /\ firstRej[t] = NoName
         /\ \E i \in 1..Len(PrereqList(t)) : pstate[PrereqList(t)[i]] = "fulfilled"

\* buildAll has nothing left to wait for
AllPrereqsBuilt(t) ==
    IF concurrencyMode = "serial"
    THEN ~requested[t] /\ idx[t] > Len(PrereqList(t))
    ELSE /\ firstRej[t] = NoName
         /\ \A i \in 1..Len(PrereqList(t)) : pstate[PrereqList(t)[i]] = "fulfilled"

\* the mtime buildAll resolves with
RECURSIVE MaxResult(_)
MaxResult(l) == IF l = <<>> THEN NegInf ELSE Max(result[Head(l)], MaxResult(Tail(l)))

latestPrereqMtime(t) ==
    IF concurrencyMode = "serial" THEN latest[t] ELSE MaxResult(PrereqList(t))

\* variant: a target that is left alone reports -Infinity
UpToDateMtimeNegInf(t) == NegInf

\* the mtime a target that is found up to date reports: targetMtime as it
\* was read before the prerequisites were built
UpToDateMtime(t) == targetMtime[t]

\* buildTarget after `await this.buildAll(...)`: the staleness test, and for a
\* stale target the synchronous start of the wrapped build function
PrereqsBuilt(t) ==
    /\ pc[t] = "waitPrereqs"
    /\ AllPrereqsBuilt(t)
    /\ latest' = [latest EXCEPT ![t] = latestPrereqMtime(t)]
    /\ IF ~Stale(targetMtime[t], latestPrereqMtime(t))
       THEN /\ Fulfil(t, UpToDateMtime(t))
            /\ ran' = [ran EXCEPT ![t] = FALSE]
            /\ UNCHANGED <<invoked, dynDone>>
       ELSE IF getRuleBuildFunctionError(t) # NoErr
       THEN /\ Reject(t, getRuleBuildFunctionError(t))
            /\ ran' = [ran EXCEPT ![t] = TRUE]
            /\ UNCHANGED <<invoked, dynDone>>
       ELSE IF HasBuildFunction(buildRules[t])
       THEN /\ pc' = [pc EXCEPT ![t] = "running"]
            /\ invoked' = [invoked EXCEPT ![t] = invoked[t] + 1]
            /\ ran' = [ran EXCEPT ![t] = TRUE]
            /\ dynDone' = [dynDone EXCEPT ![t] = {}]
            /\ UNCHANGED <<pstate, result, err, firstRej>>
       ELSE /\ pc' = [pc EXCEPT ![t] = "verify"]
            /\ ran' = [ran EXCEPT ![t] = TRUE]
            /\ UNCHANGED <<pstate, result, err, firstRej, invoked, dynDone>>
    /\ UNCHANGED <<Config, Shell, fs, Memo, targetMtime, idx, requested, nreq, reqLog>>

\* what a build function that returns may leave under the target name: what
\* was there, or a file (a directory for a "directory" rule) with any mtime
Writes(t) ==
    {fs[t]} \cup {Entry(IF TargetType(t) = "directory" THEN "dir" ELSE "file", m) : m \in Mtimes}
            \cup {Entry("dir", m) : m \in {x \in Mtimes : buildRules[t].isDirectory = "true"}}

\* what a build function that throws may leave: what was there, or a partial artifact
PartialWrites(t) == {fs[t], Entry("file", MaxTime)}

\* variant: the function made from `cmd` throws a plain Error as well
ThrownByUntraced(t) ==
    IF buildRules[t].invoke THEN PlainError
    ELSE [kind |-> "Cmd", traced |-> FALSE, trace |-> <<>>]

\* the error a failing build function throws: an inline callable throws a
\* plain Error, the function made from `cmd` throws a BuildError with ctx's trace
ThrownBy(t) ==
    IF buildRules[t].invoke THEN PlainError ELSE BuildError("Cmd", buildRuleTrace(t))

\* variant: no request of a callable is awaited
AwaitedNone(t) == {}

\* the builds a callable awaits before it does anything else: the callable
\* of a rule that names its own target in dyn is
\* `async ctx => { await ctx.builder.build(ctx.targetName, ctx); ... }`
Awaited(t) == buildRules[t].dyn \cap {t}

\* the awaits of the running callable are over
AwaitsOver(t) == \A x \in Awaited(t) : x \in dynDone[t] /\ pstate[x] \in {"fulfilled", "rejected"}

\* a running inline callable calls ctx.builder.build(x, ctx); only a request
\* for its own target is awaited
CallableRequest(t, x) ==
    /\ pc[t] = "running"
    /\ buildRules[t].invoke
    /\ x \in buildRules[t].dyn \ dynDone[t]
    /\ dynDone' = [dynDone EXCEPT ![t] = dynDone[t] \cup {x}]
    /\ BuildCalls(<<x>>, buildRuleTrace(t), pc)
    /\ UNCHANGED <<Config, Shell, fs, result, err, firstRej, targetMtime, idx, requested,
                   latest, invoked, ran, nreq, reqLog>>

\* the build function returned without error
CallableReturn(t, w) ==
    /\ pc[t] = "running"
    /\ AwaitsOver(t)
    /\ fs' = [fs EXCEPT ![t] = w]
    /\ pc' = [pc EXCEPT ![t] = "verify"]
    /\ UNCHANGED <<Config, Shell, Memo, pstate, result, err, firstRej, TaskLocals, nreq>>

\* the build function threw: the catch block applies the failure file policy
CallableThrow(t, w) ==
    /\ pc[t] = "running"
    /\ AwaitsOver(t)
    /\ fs' = [fs EXCEPT ![t] = w]
    /\ IF getFailureFileAction(buildRules[t]) = "delete"
       THEN /\ pc' = [pc EXCEPT ![t] = "removing"]
            /\ err' = [err EXCEPT ![t] = ThrownBy(t)]
            /\ UNCHANGED <<pstate, result, firstRej>>
       ELSE Reject(t, ThrownBy(t))
    /\ UNCHANGED <<Config, Shell, Memo, TaskLocals, nreq>>

\* makeRemoved(targetName).then(() => rejection): the artifact is gone (or
\* was not there, which makeRemoved tolerates) and the caught error is rethrown
Removed(t) ==
    /\ pc[t] = "removing"
    /\ fs' = [fs EXCEPT ![t] = Absent]
    /\ Reject(t, err[t])
    /\ UNCHANGED <<Config, Shell, Memo, TaskLocals, nreq>>

\* the error of a Deno.remove that fails for another reason than NotFound
RemoveError == [kind |-> "IO", traced |-> FALSE, trace |-> <<>>]

\* makeRemoved rejected: Deno.remove failed with an error that is not
\* NotFound, which makeRemoved passes on; `.then(() => rejection)` is skipped
\* and the promise buildTarget returned rejects with the removal's error
RemoveFails(t) ==
    /\ pc[t] = "removing"
    /\ fs[t].kind # "none"
    /\ Reject(t, RemoveError)
    /\ UNCHANGED <<Config, Shell, fs, Memo, TaskLocals, nreq>>

\* variant: a target that does not exist passes
VerifyFailsUnlessMissing(targetType, entry) ==
    \/ targetType = "file" /\ entry.kind = "dir"
    \/ targetType = "directory" /\ entry.kind = "file"

\* verifyTarget's verdict on the target as it is on disk
VerifyFails(targetType, entry) ==
    \/ targetType = "file" /\ entry.kind # "file"
    \/ targetType = "directory" /\ entry.kind # "dir"

\* variant: a failed verification goes through the failure file policy
VerifyAppliesPolicy(t) ==
    /\ pc[t] = "verify"
    /\ IF VerifyFails(TargetType(t), fs[t])
       THEN IF getFailureFileAction(buildRules[t]) = "delete"
            THEN /\ pc' = [pc EXCEPT ![t] = "removing"]
                 /\ err' = [err EXCEPT ![t] = BuildError("Verify", buildRuleTrace(t))]
                 /\ UNCHANGED <<pstate, result, firstRej>>
            ELSE Reject(t, BuildError("Verify", buildRuleTrace(t)))
       ELSE /\ pc' = [pc EXCEPT ![t] = "postProcess"]
            /\ UNCHANGED <<pstate, result, err, firstRej>>
    /\ UNCHANGED <<Config, Shell, fs, Memo, TaskLocals, nreq>>

\* await this.verifyTarget(targetName, targetType, ctx)
Verify(t) ==
    /\ pc[t] = "verify"
    /\ IF VerifyFails(TargetType(t), fs[t])
       THEN Reject(t, BuildError("Verify", buildRuleTrace(t)))
       ELSE /\ pc' = [pc EXCEPT ![t] = "postProcess"]
            /\ UNCHANGED <<pstate, result, err, firstRej>>
    /\ UNCHANGED <<Config, Shell, fs, Memo, TaskLocals, nreq>>

\* await this.postProcessTarget(targetName, targetType): touchDir stamps a
\* directory with the current time m, which no mtime on disk lies ahead of
PostProcess(t, m) ==
    /\ pc[t] = "postProcess"
    /\ IF TargetType(t) = "directory" /\ fs[t].kind = "dir"
       THEN /\ \A n \in Names : fs[n].mtime <= m
            /\ fs' = [fs EXCEPT ![t] = Entry("dir", m)]
       ELSE m = 0 /\ UNCHANGED fs
    /\ pc' = [pc EXCEPT ![t] = "reread"]
    /\ UNCHANGED <<Config, Shell, Memo, pstate, result, err, firstRej, TaskLocals, nreq>>

\* variant: the mtime read before the build is reported
BuiltMtimeNotReread(t) == IF TargetType(t) = "phony" THEN PosInf ELSE targetMtime[t]

\* variant: a phony target reports what is on disk under its name
BuiltMtimeOfDisk(t) == effectiveMtime(t, NegInf)

\* the mtime a target that was built reports
BuiltMtime(t) == IF TargetType(t) = "phony" THEN PosInf ELSE effectiveMtime(t, NegInf)

\* targetMtime re-read after the build step; buildTarget returns {mtime}
Reread(t) ==
    /\ pc[t] = "reread"
    /\ Fulfil(t, BuiltMtime(t))
    /\ UNCHANGED <<Config, Shell, fs, Memo, TaskLocals, nreq>>

\* the steps of the tasks behind the promises
Tasks ==
    \/ \E t \in Names : FetchRule(t)
    \/ \E t \in Names : StatNoRule(t)
    \/ \E t \in Names : ReadMtime(t)
    \/ \E t \in Callers : SerialNext(t)
    \/ \E t \in Callers : SerialThen(t)
    \/ \E t \in Callers : SerialFail(t)
    \/ \E t \in Callers : ParallelFail(t)
    \/ \E t \in Names : PrereqsBuilt(t)
    \/ \E t \in Names, x \in Names : CallableRequest(t, x)
    \/ \E t \in Names : \E w \in Writes(t) : CallableReturn(t, w)
    \/ \E t \in Names : \E w \in PartialWrites(t) : CallableThrow(t, w)
    \/ \E t \in Names : Removed(t)
    \/ \E t \in Names : RemoveFails(t)
    \/ \E t \in Names : Verify(t)
    \/ \E t \in Names, m \in Mtimes : PostProcess(t, m)
    \/ \E t \in Names : Reread(t)

Next ==
    \/ \E n \in Names : ExternalBuild(n)
    \/ Tasks

Spec == Init /\ [][Next]_vars

\* ------------------------------------------- an alternate mtime function
\* the rule of the sidecar test, d <- [e1, e2] over names without rules; the
\* callable also asks the builder for sh
SidecarRules ==
    [n \in Names |->
       CASE n = "d"  -> MkRule(<<"e1", "e2">>, "file", "undef", TRUE, FALSE, "undef", {"sh"})
         [] OTHER    -> NoRule]

\* the disks of the sidecar test: the target is the newest file, or the
\* oldest, or the second prerequisite is missing
SidecarFs ==
    LET old == Entry("file", 0)
        new == Entry("file", MaxTime)
    IN { Disk(old, old, old, new),
         Disk(old, new, new, old),
         Disk(old, old, Absent, new) }

\* what the sidecar files hold: a number or nothing for d, e1 and e2
SidecarMaps ==
    {f \in [Names -> SidecarTimes \cup {Undefined}] : f["sh"] = Undefined}

\* a Builder constructed with an alternate mtime function
InitOracle ==
    /\ buildRules = SidecarRules
    /\ globalPrereqs = <<>>
    /\ concurrencyMode \in {"serial", "parallel"}
    /\ fs \in SidecarFs
    /\ argv = NoArgs
    /\ mtimeFunction \in SidecarMaps
    /\ Constructed

OracleSpec == InitOracle /\ [][Next]_vars

\* ------------------------------------------------------------------ join()
\* the identity of this.allBuildPromisesSettled: build() replaces the chain
\* by a longer one for every promise it creates
allBuildPromisesSettled == nextId - 1

\* the name whose promise is the k-th that build() created
PromiseOf(k) == CHOOSE n \in Names : buildPromises[n] = k

\* bp.then(_ => {}, _ => {}): fulfilled once bp has settled either way
SettleLink(ps) ==
    IF ps \in {"fulfilled", "rejected"} THEN "fulfilled" ELSE "pending"

\* the state of chain k, which is chain(k-1).then(() => link of promise k)
RECURSIVE ChainState(_)
ChainState(k) ==
    IF k = RESOLVED_VOID_PROMISE THEN "fulfilled"
    ELSE IF ChainState(k - 1) # "fulfilled" THEN ChainState(k - 1)
    ELSE SettleLink(pstate[PromiseOf(k)])

\* variant: join without the short cut
joinAlwaysWaits(j) ==
    /\ joinPc' = [joinPc EXCEPT ![j] = "waiting"]
    /\ joinSeen' = [joinSeen EXCEPT ![j] = allBuildPromisesSettled]

\* join() up to its return: the short cut, or settlePromise is taken
join(j) ==
    IF allBuildPromisesSettled = RESOLVED_VOID_PROMISE
    THEN /\ joinPc' = [joinPc EXCEPT ![j] = "resolved"]
         /\ joinSeen' = [joinSeen EXCEPT ![j] = RESOLVED_VOID_PROMISE]
    ELSE /\ joinPc' = [joinPc EXCEPT ![j] = "waiting"]
         /\ joinSeen' = [joinSeen EXCEPT ![j] = allBuildPromisesSettled]

\* code outside the Builder calls join()
JoinCall ==
    /\ joinPc["caller"] = "idle"
    /\ join("caller")
    /\ UNCHANGED <<Config, fs, Memo, pstate, result, err, pc, firstRej, TaskLocals,
                   nreq, clPc, exitCode, rejoined>>

\* variant: join does not look at the chain again
NewTasksSpawnedIgnored(j) == FALSE

\* this.allBuildPromisesSettled !== settlePromise
NewTasksSpawned(j) == allBuildPromisesSettled # joinSeen[j]

\* the callback join() put on settlePromise runs: join again if the chain has
\* grown meanwhile, else the promise join() returned resolves
JoinWake(j) ==
    /\ joinPc[j] = "waiting"
    /\ ChainState(joinSeen[j]) # "pending"
    /\ IF ChainState(joinSeen[j]) = "rejected"
       THEN /\ joinPc' = [joinPc EXCEPT ![j] = "rejected"]
            /\ UNCHANGED <<joinSeen, rejoined>>
       ELSE IF NewTasksSpawned(j)
       THEN /\ join(j)
            /\ rejoined' = [rejoined EXCEPT ![j] = TRUE]
       ELSE /\ joinPc' = [joinPc EXCEPT ![j] = "resolved"]
            /\ UNCHANGED <<joinSeen, rejoined>>
    /\ UNCHANGED <<Config, fs, Memo, pstate, result, err, pc, firstRej, TaskLocals,
                   nreq, clPc, exitCode>>

\* ------------------------------------------------------ processCommandLine()
\* processCommandLine(args): parseCommandLineArgs, and on success run() up to
\* its return.  A rejection of parseCommandLineArgs has no handler and
\* rejects the promise processCommandLine returned.  run() returns a resolved
\* promise for everything but a build of at least one target, for which it
\* calls buildAll(buildParams.targetNames, ctx).
ProcessCommandLine ==
    /\ clPc = "idle"
    /\ IF argv.unrecognized
       THEN /\ clPc' = "rejected"
            /\ UNCHANGED <<Memo, pstate, result, err, pc, firstRej, idx, requested,
                           latest, reqLog>>
       ELSE /\ clPc' = "running"
            /\ IF argv.buildOperation = "build" /\ argv.targetNames # <<>>
               THEN /\ idx' = [idx EXCEPT ![TopLevel] = 1]
                    /\ requested' = [requested EXCEPT ![TopLevel] = FALSE]
                    /\ latest' = [latest EXCEPT ![TopLevel] = NegInf]
                    /\ UNCHANGED <<result, err>>
                    /\ IF concurrencyMode = "serial"
                       THEN /\ pc' = [pc EXCEPT ![TopLevel] = "waitPrereqs"]
                            /\ firstRej' = [firstRej EXCEPT ![TopLevel] = NoName]
                            /\ UNCHANGED <<Memo, pstate, reqLog>>
                       ELSE /\ BuildCalls(PrereqList(TopLevel), buildRuleTrace(TopLevel),
                                          [pc EXCEPT ![TopLevel] = "waitPrereqs"])
                            /\ reqLog' = [reqLog EXCEPT ![TopLevel] = @ \o PrereqList(TopLevel)]
                            /\ firstRej' = [firstRej EXCEPT ![TopLevel] = AlreadyRejected(TopLevel)]
               ELSE /\ Fulfil(TopLevel, NegInf)
                    /\ IF argv.buildOperation \in {"list-targets", "describe-targets"}
                       THEN /\ FetchAllBuildRulesCall(fetchGeneratedTargets)
                            /\ UNCHANGED <<buildPromises, nextId, handles, parentTrace>>
                       ELSE UNCHANGED Memo
                    /\ UNCHANGED <<idx, requested, latest, reqLog>>
    /\ UNCHANGED <<Config, fs, targetMtime, invoked, ran, dynDone, nreq, exitCode,
                   joinPc, joinSeen, rejoined>>

\* run(): buildAll resolved, `.then(() => {})` resolves the promise run() returned
RunBuilt ==
    /\ pc[TopLevel] = "waitPrereqs"
    /\ AllPrereqsBuilt(TopLevel)
    /\ latest' = [latest EXCEPT ![TopLevel] = latestPrereqMtime(TopLevel)]
    /\ Fulfil(TopLevel, latestPrereqMtime(TopLevel))
    /\ UNCHANGED <<Config, Shell, fs, Memo, targetMtime, idx, requested, invoked, ran,
                   dynDone, reqLog, nreq>>

\* runResultToCommandLineResult: the promise of run() settled, one of the two
\* handlers returns the exit code, and the finally handler calls join()
RunSettled ==
    /\ clPc = "running"
    /\ pstate[TopLevel] \in {"fulfilled", "rejected"}
    /\ exitCode' = IF pstate[TopLevel] = "fulfilled" THEN 0 ELSE 1
    /\ clPc' = "finally"
    /\ join("finally")
    /\ UNCHANGED <<Config, fs, Memo, pstate, result, err, pc, firstRej, TaskLocals, nreq,
                   rejoined>>

\* variant: the finally handler calls join() without returning its promise
FinallyNotAwaited == TRUE

\* the promise the finally handler returned, which is join()'s, has settled
FinallySettled == joinPc["finally"] \in {"resolved", "rejected"}

\* the promise processCommandLine returned settles: with the exit code, or
\* with the rejection of the finally handler's promise
Exit ==
    /\ clPc = "finally"
    /\ FinallySettled
    /\ clPc' = IF joinPc["finally"] = "rejected" THEN "rejected" ELSE "exited"
    /\ UNCHANGED <<Config, fs, Memo, pstate, result, err, pc, firstRej, TaskLocals,
                   nreq, exitCode, joinPc, joinSeen, rejoined>>

\* the Builder behind a command line: all work starts from processCommandLine,
\* join() is also called from outside
ShellRuleSets == {ForkRules, TypedRules, CycleRules, SelfRules}

\* the disks a command line is run on
ShellFs ==
    LET old == Entry("file", 0)
        new == Entry("file", MaxTime)
    IN { Disk(Absent, Absent, Absent, Absent),     \* nothing exists
         Disk(old, Absent, Absent, Absent),        \* only the source exists
         Disk(new, old, old, old) }                \* everything exists, the source is newer

InitShell ==
    /\ buildRules \in ShellRuleSets
    /\ globalPrereqs \in GlobalPrereqSets
    /\ concurrencyMode \in {"serial", "parallel"}
    /\ fs \in ShellFs
    /\ argv \in CommandLines
    /\ mtimeFunction = NoMtimeFunction
    /\ Constructed

NextShell ==
    \/ Tasks
    \/ ProcessCommandLine
    \/ RunBuilt
    \/ RunSettled
    \/ Exit
    \/ JoinCall
    \/ \E j \in Joiners : JoinWake(j)

ShellSpec == InitShell /\ [][NextShell]_vars

\* ------------------------------------------------------------------- run()
\* the static rules of the Builders that run() is called on directly
ApiRuleSets == {TypedRules, NoRules}

\* what an overridden fetchGeneratedTargets may return: nothing, a rule for a
\* name without a static rule next to one that collides with the static d,
\* or rules that collide with the static e1 and e2
GeneratedMaps ==
    { NoRules,
      [n \in Names |->
         CASE n = "sh" -> MkRule(<<>>, "file", "undef", FALSE, TRUE, "undef", {})
           [] n = "d"  -> MkRule(<<"sh">>, "phony", "undef", TRUE, FALSE, "undef", {})
           [] OTHER    -> NoRule],
      [n \in Names |->
         CASE n = "e1" -> MkRule(<<>>, "auto", "undef", TRUE, FALSE, "true", {})
           [] n = "e2" -> MkRule(<<"e1">>, "file", "undef", TRUE, FALSE, "undef", {})
           [] OTHER    -> NoRule] }

\* BuildParameters of an operation that builds nothing: a listing, the help
\* text, or a build of no targets; concurrencyMode is optional
RunParams ==
    [buildOperation : {"list-targets", "describe-targets", "print-help", "build"},
     concurrencyMode : {"undef", "serial", "parallel"}]

\* variant: run() takes the mode it is given
runConcurrencyModeAsGiven(current, given) ==
    IF given = "undef" THEN current ELSE given

\* this.concurrencyMode after the head of run(): a serial Builder ignores
\* 'parallel' (and warns), any other given mode is taken
runConcurrencyMode(current, given) ==
    IF given = "undef" THEN current
    ELSE IF current = "serial" /\ given = "parallel" THEN current
    ELSE given

\* run(buildParams) called from outside with such parameters, up to its
\* return; the hook returns g if the operation lists the targets
Run(buildParams, g) ==
    /\ Len(runLog) < MaxRuns
    /\ runLog' = Append(runLog, buildParams.concurrencyMode)
    /\ concurrencyMode' = runConcurrencyMode(concurrencyMode, buildParams.concurrencyMode)
    /\ IF buildParams.buildOperation \in {"list-targets", "describe-targets"}
       THEN FetchAllBuildRulesCall(g)
       ELSE g = NoRules /\ UNCHANGED <<hookCalls, generatedTargets, allTargets>>
    /\ UNCHANGED <<buildRules, globalPrereqs, argv, Shell, fs, buildPromises, nextId,
                   handles, parentTrace, pstate, result, err, pc, firstRej, TaskLocals,
                   nreq, mtimeFunction, fs0, Rewriting, Parsing>>

\* a Builder on which run() is called from outside, for operations that
\* build nothing
InitApi ==
    /\ buildRules \in ApiRuleSets
    /\ globalPrereqs = <<>>
    /\ concurrencyMode \in {"serial", "parallel"}
    /\ fs = Disk(Absent, Absent, Absent, Absent)
    /\ argv = NoArgs
    /\ mtimeFunction = NoMtimeFunction
    /\ Constructed

NextApi == \E buildParams \in RunParams, g \in GeneratedMaps : Run(buildParams, g)

ApiSpec == InitApi /\ [][NextApi]_vars

\* ------------------------------------------------- rewriteCommand, applied
\* getRuleBuildFunction calls rewriteCommand(rule.cmd, ctx)
Rewrite ==
    /\ rewritten = NotRewritten
    /\ rewritten' = rewriteCommand(rawCmd, Ctx(ctxPrereqNames))
    /\ UNCHANGED <<buildRules, globalPrereqs, concurrencyMode, argv, runLog, mtimeFunction, fs0, rawCmd,
                   ctxPrereqNames, Shell, fs, Memo, pstate, result, err, pc, firstRej,
                   TaskLocals, nreq, Parsing>>

\* a command vector and a context for it
InitRewrite ==
    /\ buildRules = TypedRules
    /\ globalPrereqs = <<>>
    /\ concurrencyMode = "parallel"
    /\ fs = Disk(Absent, Absent, Absent, Absent)
    /\ argv = NoArgs
    /\ mtimeFunction = NoMtimeFunction
    /\ NothingRequested
    /\ NothingParsed
    /\ NothingStatted
    \* the command vectors of at most MaxCmdLen arguments
    /\ rawCmd \in UNION {[1..k -> CmdArgs] : k \in 0..MaxCmdLen}
    /\ ctxPrereqNames \in PrereqNameLists
    /\ rewritten = NotRewritten

NextRewrite == Rewrite

RewriteSpec == InitRewrite /\ [][NextRewrite]_vars

\* ------------------------------------------- parseCommandLineArgs, applied
\* the k-th call of parseCommandLineArgs returns
ParseCommandLineArgs(k) ==
    /\ parsedParams[k] = NotParsed
    /\ parsedParams' = [parsedParams EXCEPT
                          ![k] = parseCommandLineArgs(cmdLines[k], concurrencyMode)]
    /\ UNCHANGED <<buildRules, globalPrereqs, concurrencyMode, argv, runLog, mtimeFunction,
                   fs0, Rewriting, cmdLines, mtimeArgs, mtimeResult, Shell, fs, Memo, pstate,
                   result, err, pc, firstRej, TaskLocals, nreq>>

\* a Builder that is given a command line, and the same arguments in another
\* order
InitParse ==
    /\ buildRules = TypedRules
    /\ globalPrereqs = <<>>
    /\ concurrencyMode \in {"serial", "parallel"}
    /\ fs = Disk(Absent, Absent, Absent, Absent)
    /\ argv = NoArgs
    /\ mtimeFunction = NoMtimeFunction
    /\ NothingRequested
    /\ NothingRewritten
    /\ NothingStatted
    /\ \E args \in ArgVectors : \E other \in Rearrangements(args) :
           cmdLines = <<args, other>>
    /\ parsedParams = <<NotParsed, NotParsed>>

NextParse == \E k \in 1..2 : ParseCommandLineArgs(k)

ParseSpec == InitParse /\ [][NextParse]_vars

\* ------------------------------------------------------- mtimeR, applied
\* mtimeR(path, onNotFound) is called and its promise settles
MtimeR ==
    /\ mtimeResult = NotCalled
    /\ mtimeResult' = mtimeROf(mtimeArgs.root, mtimeArgs.onNotFound, PosInf)
    /\ UNCHANGED <<buildRules, globalPrereqs, concurrencyMode, argv, runLog, mtimeFunction,
                   fs0, Rewriting, cmdLines, parsedParams, mtimeArgs, Shell, fs, Memo, pstate,
                   result, err, pc, firstRej, TaskLocals, nreq>>

\* a path with a tree under it, and an onNotFound
InitMtime ==
    /\ buildRules = TypedRules
    /\ globalPrereqs = <<>>
    /\ concurrencyMode = "parallel"
    /\ fs = Disk(Absent, Absent, Absent, Absent)
    /\ argv = NoArgs
    /\ mtimeFunction = NoMtimeFunction
    /\ NothingRequested
    /\ NothingRewritten
    /\ NothingParsed
    /\ mtimeArgs \in [root : Trees, onNotFound : OnNotFounds]
    /\ mtimeResult = NotCalled

NextMtime == MtimeR

MtimeSpec == InitMtime /\ [][NextMtime]_vars

\* ------------------------------------------------------------ type invariant
TypeOK ==
    /\ buildRules \in RuleSets \cup ShellRuleSets \cup ApiRuleSets \cup {SidecarRules}
    /\ mtimeFunction \in SidecarMaps
    /\ hookCalls \in Nat
    /\ generatedTargets \in GeneratedMaps
    /\ allTargets \in [Names -> {NoRule} \cup {buildRules[n] : n \in Names}
                                        \cup {generatedTargets[n] : n \in Names}]
    /\ Len(runLog) <= MaxRuns
    /\ argv \in CommandLines \cup {NoArgs}
    /\ clPc \in {"idle", "running", "finally", "exited", "rejected"}
    /\ exitCode \in {0, 1}
    /\ \A j \in Joiners : joinPc[j] \in {"idle", "waiting", "resolved", "rejected"}
    /\ \A j \in Joiners : joinSeen[j] \in 0..(nextId - 1)
    /\ concurrencyMode \in {"serial", "parallel"}
    /\ globalPrereqs \in GlobalPrereqSets
    /\ \A n \in Names : fs[n] \in Entries
    /\ \A n \in Names : buildPromises[n] \in 0..(nextId - 1)
    /\ \A n \in Names : pstate[n] \in {"none", "pending", "fulfilled", "rejected"}
    /\ \A n \in Names : pc[n] \in {"idle", "fetchRule", "statNoRule", "readMtime",
                                   "waitPrereqs", "running", "removing", "verify",
                                   "postProcess", "reread", "done"}
    /\ \A n \in Names : result[n] \in {NegInf, PosInf} \cup Mtimes \cup SidecarTimes
    /\ nreq \in 0..MaxRequests

\* ---------------------------------------------------------- the rule graph
\* the names buildTarget(t) requests: nothing for a name without a rule
DirectPrereqs(t) ==
    IF buildRules[t].present
    THEN {PrereqNames(t)[i] : i \in 1..Len(PrereqNames(t))}
    ELSE {}

RECURSIVE Reach(_, _)
Reach(S, k) ==
    IF k = 0 THEN S ELSE Reach(S \cup UNION {DirectPrereqs(x) : x \in S}, k - 1)

TransPrereqs(t) == Reach(DirectPrereqs(t), Cardinality(Names))

Last(tr) == tr[Len(tr)]

Settled(n) == pstate[n] \in {"fulfilled", "rejected"}

\* ------------------------------------------------------------------ claims

\* C1: the build callable of every target is invoked at most once per Builder,
\* however many build requests (outside, prerequisite or dynamic) mention it.
C1_AtMostOnce == \A t \in Names : invoked[t] <= 1

\* the diamond was built: sh was requested by e1 and by e2, e2 by d and by
\* e1's callable, and each callable ran once
C1_Witness ==
    /\ buildRules = DiamondRules
    /\ pstate["d"] = "fulfilled"
    /\ "e2" \in dynDone["e1"]
    /\ \A t \in Names : invoked[t] = 1

\* C2: a memo entry, once stored, is never replaced or removed; every build()
\* of the name returned that promise; a settled promise keeps its outcome.
C2_MemoStable ==
    /\ [](\A h \in handles : buildPromises[h[1]] = h[2])
    /\ [][\A n \in Names :
            MemoHit(n) =>
              /\ buildPromises'[n] = buildPromises[n]
              /\ Settled(n) =>
                   /\ pstate'[n] = pstate[n]
                   /\ result'[n] = result[n]
                   /\ err'[n] = err[n]]_vars

\* a rejected promise shared by two requesters, both of which failed with its error
C2_Witness ==
    /\ pstate["sh"] = "rejected"
    /\ firstRej["e1"] = "sh" /\ pstate["e1"] = "rejected" /\ err["e1"] = err["sh"]
    /\ firstRej["e2"] = "sh" /\ pstate["e2"] = "rejected" /\ err["e2"] = err["sh"]

\* C3: once all prerequisites are built, the build step runs iff targetMtime
\* is -Infinity or some prerequisite reported a strictly greater mtime; with
\* equal mtimes the target is not rebuilt (and its callable is not invoked).
C3_RunsIffStale ==
    [][\A t \in Names :
         (/\ pc[t] = "waitPrereqs"
          /\ pc'[t] # "waitPrereqs"
          /\ \A p \in DirectPrereqs(t) : pstate[p] = "fulfilled")
         => /\ ran'[t] <=> (\/ targetMtime[t] = NegInf
                            \/ \E p \in DirectPrereqs(t) : result[p] > targetMtime[t])
            /\ (/\ ran'[t]
                /\ buildRules[t].invoke # buildRules[t].cmd
                /\ getRuleBuildFunctionError(t) = NoErr)
                 => invoked'[t] = invoked[t] + 1
            /\ ~ran'[t] => invoked'[t] = invoked[t] /\ pstate'[t] = "fulfilled"]_vars

\* a target as old as its newest prerequisite was left alone
C3_Witness ==
    \E t \in Names :
        /\ buildRules[t].present
        /\ pstate[t] = "fulfilled"
        /\ ~ran[t]
        /\ invoked[t] = 0
        /\ targetMtime[t] \in Mtimes
        /\ \E p \in DirectPrereqs(t) : result[p] = targetMtime[t]
        /\ \A p \in DirectPrereqs(t) : result[p] <= targetMtime[t]

\* C4: when the build step ran and succeeded, the reported mtime is +Infinity
\* for a phony target and otherwise the mtime found on disk after callable,
\* verification and post-processing, not the one read before the build.
C4_ReportedMtime ==
    [][\A t \in Names :
         (/\ buildRules[t].present
          /\ pstate[t] = "pending"
          /\ pstate'[t] = "fulfilled"
          /\ ran'[t])
         => /\ pc[t] = "reread"
            /\ result'[t] = IF buildRules[t].targetType = "phony" THEN PosInf
                            ELSE IF fs[t].kind = "none" THEN NegInf
                            ELSE fs[t].mtime]_vars

\* a rebuilt target that existed before reports an mtime other than the one read first
C4_Witness ==
    \E t \in Names :
        /\ pstate[t] = "fulfilled"
        /\ ran[t]
        /\ buildRules[t].targetType # "phony"
        /\ targetMtime[t] \in Mtimes
        /\ result[t] \in Mtimes
        /\ result[t] # targetMtime[t]

\* C5 as claimed: a successful build reports an mtime >= the mtime reported
\* by every transitive prerequisite.
C5_Original ==
    \A t \in Names :
        pstate[t] = "fulfilled" =>
            \A p \in TransPrereqs(t) : pstate[p] = "fulfilled" => result[t] >= result[p]

\* C5 as amended: a target that was found up to date (its build step did not
\* run), or that is phony, reports an mtime >= the mtime reported by each of
\* its direct prerequisites.
C5_FreshWhenSkipped ==
    \A t \in Names :
        (/\ buildRules[t].present
         /\ pstate[t] = "fulfilled"
         /\ ~ran[t] \/ buildRules[t].targetType = "phony")
        => \A p \in DirectPrereqs(t) : pstate[p] = "fulfilled" /\ result[t] >= result[p]

\* an up-to-date target that is strictly newer than a prerequisite
C5_Witness ==
    \E t \in Names :
        /\ buildRules[t].present
        /\ pstate[t] = "fulfilled"
        /\ ~ran[t]
        /\ \E p \in DirectPrereqs(t) : result[p] \in Mtimes /\ result[t] > result[p]

\* C6: a build callable is invoked only after the promise of every
\* prerequisite (explicit and global) has fulfilled; with a rejected
\* prerequisite it is never invoked.
C6_PrereqsFirst ==
    \A t \in Names :
        invoked[t] > 0 => \A p \in DirectPrereqs(t) : pstate[p] = "fulfilled"

\* the callable of d is running, with explicit and global prerequisites built
C6_Witness ==
    /\ pc["d"] = "running"
    /\ globalPrereqs = <<"sh">>
    /\ concurrencyMode = "parallel"
    /\ DirectPrereqs("d") = {"e1", "e2", "sh"}

\* C7: if the build of a transitive prerequisite of t failed, the promise of
\* build(t) does not fulfil: once settled it is rejected.
C7_FailurePropagates ==
    \A t \in Names :
        \A p \in TransPrereqs(t) : pstate[p] = "rejected" => pstate[t] # "fulfilled"

\* serial mode: d failed through a prerequisite that failed through sh
C7_Witness ==
    /\ concurrencyMode = "serial"
    /\ pstate["d"] = "rejected"
    /\ firstRej["d"] # NoName
    /\ firstRej[firstRej["d"]] = "sh"
    /\ pstate["sh"] = "rejected"

\* C8 as claimed: when build(t) fails because a prerequisite failed, the
\* trace of the error it rejects with ends with t.
C8_Original ==
    \A t \in Names :
        (pstate[t] = "rejected" /\ firstRej[t] # NoName)
        => /\ err[t].traced
           /\ err[t].trace # <<>>
           /\ Last(err[t].trace) = t

\* C8 as amended: build(t) rejects with the very error of the failed
\* prerequisite, trace included; the trace of an error is fixed where it is
\* raised: the trace of the failing target's own task for a target with a
\* rule, the trace of the first requester for a missing target.
C8_ErrorPassedOn ==
    \A t \in Names :
        pstate[t] = "rejected" =>
            IF firstRej[t] # NoName
            THEN /\ firstRej[t] \in DirectPrereqs(t)
                 /\ pstate[firstRej[t]] = "rejected"
                 /\ err[t] = err[firstRej[t]]
            ELSE err[t].traced =>
                    err[t].trace = IF buildRules[t].present
                                   THEN Append(parentTrace[t], t)
                                   ELSE parentTrace[t]

\* d failed through e2, whose own verification error ends with e2, not d
C8_Witness ==
    /\ pstate["d"] = "rejected"
    /\ firstRej["d"] = "e2"
    /\ firstRej["e2"] = NoName
    /\ err["d"].kind = "Verify"
    /\ Last(err["d"].trace) = "e2"

\* a trace leads from the initiating request along requests made by the named targets
IsRequestPath(tr) ==
    /\ Len(tr) >= 1
    /\ tr[1] = RootTrace[1]
    /\ \A i \in 2..Len(tr) : tr[i] \in Names
    /\ \A i \in 2..(Len(tr) - 1) :
          tr[i + 1] \in DirectPrereqs(tr[i]) \cup buildRules[tr[i]].dyn

C10_MissingTrace ==
    \A t \in Names :
        (~buildRules[t].present /\ pstate[t] = "rejected")
        => /\ err[t].kind = "Missing"
           /\ err[t].trace = Append(parentTrace[t], t)

\* C11 as claimed: in serial mode, for sibling prerequisites a before b of a
\* target that is being built, the callable of a completes before the
\* callable of b starts: a is not running once b has started, and a does not
\* start after b has.
C11_Original ==
    [][concurrencyMode = "serial" =>
         \A t \in Names :
           (buildRules[t].present /\ MemoHit(t)) =>
             LET l == PrereqList(t) IN
             \A i, j \in 1..Len(l) :
               i < j =>
                 /\ invoked'[l[j]] > 0 => pc'[l[i]] # "running"
                 /\ (invoked[l[j]] > 0 /\ invoked[l[i]] = 0) => invoked'[l[i]] = 0]_vars

\* C11 as amended: in serial mode, for sibling prerequisites a before b of a
\* target, if the build of b was first requested by that target's buildAll
\* (b is not a prerequisite of a, and no other target, callable or outside
\* caller asked for b earlier), then the promise of a had fulfilled before b
\* was requested, so the callable of a is over before the callable of b starts.
C11_SerialSiblings ==
    concurrencyMode = "serial" =>
      \A t \in Names :
        (buildRules[t].present /\ MemoHit(t)) =>
          LET l == PrereqList(t) IN
          \A i, j \in 1..Len(l) :
            (i < j /\ MemoHit(l[j]) /\ parentTrace[l[j]] = buildRuleTrace(t))
            => /\ pstate[l[i]] = "fulfilled"
               /\ pc[l[i]] = "done"

\* serial mode: the callable of e2, requested by d, runs after that of e1 ran
C11_Witness ==
    /\ concurrencyMode = "serial"
    /\ buildRules = DiamondRules
    /\ invoked["e1"] = 1
    /\ pc["e2"] = "running"
    /\ parentTrace["e2"] = buildRuleTrace("d")

\* C12: in serial mode, with all work started from the one buildAll of run()
\* and no callable requesting builds, a buildAll requests the next name only
\* after the promise of the name before it has fulfilled, and never are two
\* build callables running at the same time.
C12_SerialOneAtATime ==
    (/\ concurrencyMode = "serial"
     /\ nreq = 0
     /\ \A t \in Names : dynDone[t] = {})
    => /\ \A c \in Callers :
            /\ Len(reqLog[c]) <= Len(PrereqList(c))
            /\ \A i \in 1..Len(reqLog[c]) : reqLog[c][i] = PrereqList(c)[i]
            /\ \A i \in 1..(Len(reqLog[c]) - 1) : pstate[reqLog[c][i]] = "fulfilled"
       /\ Cardinality({t \in Names : pc[t] = "running"}) <= 1

\* serial mode: run() has requested its second name after the first was
\* built, and the callable of the second is running
C12_Witness ==
    /\ concurrencyMode = "serial"
    /\ \A t \in Names : dynDone[t] = {}
    /\ reqLog[TopLevel] = <<"e1", "e2">>
    /\ invoked["e1"] = 1
    /\ pstate["e1"] = "fulfilled"
    /\ pc["e2"] = "running"

\* position of the first occurrence of x in l
FirstIndex(l, x) == CHOOSE i \in 1..Len(l) : l[i] = x /\ \A j \in 1..(i - 1) : l[j] # x

\* s lists the distinct elements of l once each, in the order of their first occurrence
IsFirstOccurrenceOrder(s, l) ==
    /\ {s[i] : i \in 1..Len(s)} = {l[i] : i \in 1..Len(l)}
    /\ \A i, j \in 1..Len(s) :
          i < j => s[i] # s[j] /\ FirstIndex(l, s[i]) < FirstIndex(l, s[j])

\* the greatest element of a set of mtimes, -Infinity for the empty set
MaxOf(S) == IF S = {} THEN NegInf ELSE CHOOSE m \in S : \A x \in S : x <= m

\* the buildAll called by c (a target's buildTarget, or run()) has resolved
BuildAllSucceeded(c) ==
    IF c = TopLevel
    THEN argv.buildOperation = "build" /\ pstate[c] = "fulfilled"
    ELSE buildRules[c].present /\ (ran[c] \/ pstate[c] = "fulfilled")

\* C13: a buildAll(names) that succeeded has requested each distinct name
\* once, in first-occurrence order, and returned the maximum of the mtimes
\* those builds reported (-Infinity for no names), in serial and in parallel
\* mode alike, whatever the order in which the builds completed.
C13_BuildAllResult ==
    \A c \in Callers :
        BuildAllSucceeded(c) =>
            /\ IsFirstOccurrenceOrder(reqLog[c], PrereqNames(c))
            /\ \A i \in 1..Len(reqLog[c]) : pstate[reqLog[c][i]] = "fulfilled"
            /\ latest[c] = MaxOf({result[PrereqNames(c)[i]] : i \in 1..Len(PrereqNames(c))})

\* run() built e1, e2, e1: two requests, and the maximum is the mtime of the
\* name listed first
C13_Witness ==
    /\ argv.targetNames = <<"e1", "e2", "e1">>
    /\ pstate[TopLevel] = "fulfilled"
    /\ reqLog[TopLevel] = <<"e1", "e2">>
    /\ result["e2"] \in Mtimes
    /\ result["e1"] > result["e2"]
    /\ latest[TopLevel] = result["e1"]

\* C14: parallel mode has no cancellation: when a promise rejects, no other
\* promise and no other task is touched in that step, the memo entries stay,
\* and a promise rejects only through a step of its own task or through the
\* rejection of one of its own prerequisites.
C14_NoCancellation ==
    [][concurrencyMode = "parallel" =>
         \A s \in Names :
           /\ MemoHit(s) => buildPromises'[s] = buildPromises[s]
           /\ (pstate[s] = "pending" /\ pstate'[s] = "rejected") =>
                /\ \A u \in Names \ {s} : pstate'[u] = pstate[u] /\ pc'[u] = pc[u]
                /\ IF firstRej'[s] # NoName
                   THEN /\ firstRej'[s] \in DirectPrereqs(s)
                        /\ pstate[firstRej'[s]] = "rejected"
                   ELSE pc[s] \in {"fetchRule", "statNoRule", "waitPrereqs",
                                   "running", "removing", "verify"}]_vars

\* parallel mode: d has failed through e1, and the callable of its sibling e2 is running
C14_Witness ==
    /\ concurrencyMode = "parallel"
    /\ pstate["d"] = "rejected"
    /\ firstRej["d"] = "e1"
    /\ pc["e2"] = "running"
    /\ MemoHit("e2")

\* C15: whenever the promise of a join() call resolves, no build promise
\* created so far is pending, those created while join waited included; the
\* promise of join() never rejects.
C15_JoinWaitsForAll ==
    /\ [](\A j \in Joiners : joinPc[j] # "rejected")
    /\ [][\A j \in Joiners :
            (joinPc[j] # "resolved" /\ joinPc'[j] = "resolved")
            => \A n \in Names : pstate'[n] # "pending"]_vars

\* a join() called from outside joined again for tasks spawned while it
\* waited, and resolved after a build had failed
C15_Witness ==
    /\ joinPc["caller"] = "resolved"
    /\ rejoined["caller"]
    /\ joinSeen["caller"] = allBuildPromisesSettled
    /\ \E n \in Names : pstate[n] = "rejected"
    /\ \E n \in Names : pstate[n] = "fulfilled"

\* C16: the exit code of processCommandLine is delivered only after the
\* join() of the finally handler has resolved: no build promise is pending
\* at that moment, whether the build succeeded or failed.
C16_ExitAfterJoin ==
    [][(clPc # "exited" /\ clPc' = "exited")
       => /\ joinPc["finally"] = "resolved"
          /\ \A n \in Names : pstate'[n] # "pending"]_vars

\* parallel mode: the build failed through e1, its sibling e2 was built, and
\* exit code 1 was delivered after a join that had to wait
C16_Witness ==
    /\ clPc = "exited"
    /\ exitCode = 1
    /\ concurrencyMode = "parallel"
    /\ joinSeen["finally"] # RESOLVED_VOID_PROMISE
    /\ firstRej[TopLevel] = "e1"
    /\ pstate["e2"] = "fulfilled"
    /\ invoked["e2"] = 1

\* C17: the promise of processCommandLine never rejects; it resolves to 0
\* when the operation completed and to 1 on any error, an unrecognized
\* argument included.
C17_AlwaysExitCode ==
    /\ clPc # "rejected"
    /\ clPc = "exited" => exitCode = IF pstate[TopLevel] = "fulfilled" THEN 0 ELSE 1

\* x lies on a cycle of prerequisite edges
OnCycle(x) == x \in TransPrereqs(x)

\* a cycle of prerequisite edges can be reached from t
CycleBelow(t) == \E x \in {t} \cup TransPrereqs(t) : OnCycle(x)

\* the rule of t has a callable that awaits the build of t
AwaitsItself(t) == buildRules[t].present /\ t \in buildRules[t].dyn

\* C18 as claimed: if a cycle (of prerequisites, or a callable that was
\* invoked and awaits the build of its own target) can be reached from t,
\* build(t) never settles.
C18_Original ==
    \A t \in Names :
        (\E x \in {t} \cup TransPrereqs(t) :
            OnCycle(x) \/ (AwaitsItself(x) /\ invoked[x] > 0))
        => pstate[t] \notin {"fulfilled", "rejected"}

\* C18 as amended: cycles are not detected.  If a cycle of prerequisites can
\* be reached from t, build(t) never fulfils (it stays pending unless the
\* failure of some target rejects it); a target whose only prerequisite is
\* itself, and a target whose running callable awaits its own build, never
\* settle; and no join() resolves while such a promise is pending.
C18_CyclesNeverFulfil ==
    /\ [](\A t \in Names : CycleBelow(t) => pstate[t] # "fulfilled")
    /\ [](\A t \in Names :
            (/\ buildRules[t].present
             /\ PrereqList(t) = <<t>>
             /\ ~getRuleTargetTypeThrows(buildRules[t])
             /\ MemoHit(t))
            => pstate[t] = "pending")
    /\ [](\A t \in Names :
            (AwaitsItself(t) /\ invoked[t] > 0) => pstate[t] = "pending" /\ pc[t] = "running")
    /\ [][\A j \in Joiners :
            (joinPc[j] # "resolved" /\ joinPc'[j] = "resolved")
            => \A t \in Names :
                 (CycleBelow(t) \/ AwaitsItself(t)) => pstate'[t] # "pending"]_vars

\* e1 and e2 wait for each other, d has failed through the missing source,
\* and the join() of the finally handler waits
C18_Witness ==
    /\ buildRules = CycleRules
    /\ pc["e1"] = "waitPrereqs" /\ reqLog["e1"] = <<"e2">>
    /\ pc["e2"] = "waitPrereqs" /\ reqLog["e2"] = <<"e1">>
    /\ pstate["d"] = "rejected"
    /\ clPc = "finally"
    /\ joinPc["finally"] = "waiting"

\* the callable of t failed in this step
CallableFailed(t) == pc[t] = "running" /\ pc'[t] \notin {"running", "verify"}

C20_OriginalError ==
    [][\A t \in Names :
         (pc[t] = "removing" /\ pstate'[t] = "rejected")
         => /\ fs'[t] = Absent
            /\ err'[t] = err[t]
            /\ err'[t] = ThrownBy(t)]_vars

\* the promise of t rejected with the error its own build function threw
OwnFailure(t) ==
    /\ pstate[t] = "rejected"
    /\ firstRej[t] = NoName
    /\ invoked[t] > 0
    /\ err[t] = ThrownBy(t)

C22_ConflictAlwaysRejects ==
    \A t \in Names :
        (buildRules[t].present /\ buildRules[t].invoke /\ buildRules[t].cmd)
        => /\ invoked[t] = 0
           /\ pstate[t] # "fulfilled"
           /\ (pstate[t] = "rejected" /\ firstRej[t] = NoName)
                => err[t] = BuildError("Config", buildRuleTrace(t))

\* C23: a rule with isDirectory: true and no targetType is treated like
\* targetType "directory": its build step is followed by the verification
\* that the target is a directory, so that build(t) fulfils after a build
\* step only with a directory under the target name.
C23_IsDirectorySynonym ==
    \A t \in Names :
        (/\ buildRules[t].present
         /\ buildRules[t].isDirectory = "true"
         /\ buildRules[t].targetType = "undef"
         /\ pstate[t] = "fulfilled"
         /\ ran[t])
        => fs[t].kind = "dir"

\* C24: the hook fetchGeneratedTargets is invoked at most once per Builder,
\* however many rule lookups and listings follow the first materialization.
C24_HookInvokedOnce == hookCalls <= 1

\* C25: in the map fetchAllBuildRules returns, a name with a generated rule
\* maps to the generated rule, also when it has a static rule too; a name
\* with only a static rule maps to that rule; a name with neither has none.
C25_GeneratedOverwrites ==
    hookCalls > 0 =>
      \A n \in Names :
        /\ generatedTargets[n].present => allTargets[n] = generatedTargets[n]
        /\ (buildRules[n].present /\ ~generatedTargets[n].present)
             => allTargets[n] = buildRules[n]
        /\ (~buildRules[n].present /\ ~generatedTargets[n].present)
             => ~allTargets[n].present

\* d has a static and a different generated rule and maps to the generated
\* one, sh only a generated rule, e1 only a static one
C25_Witness ==
    /\ hookCalls > 0
    /\ buildRules["d"].present /\ generatedTargets["d"].present
    /\ generatedTargets["d"] # buildRules["d"]
    /\ allTargets["d"] = generatedTargets["d"]
    /\ ~buildRules["sh"].present /\ allTargets["sh"] = generatedTargets["sh"]
    /\ allTargets["sh"].present
    /\ ~generatedTargets["e1"].present /\ allTargets["e1"] = buildRules["e1"]
    /\ allTargets["e1"].present

\* C26: a serial Builder stays serial whatever run() is given, 'parallel'
\* included; a parallel Builder that run() was given 'serial' is serial from
\* then on; so the mode never changes from serial to parallel.
C26_SerialIsKept ==
    /\ []((\E i \in 1..Len(runLog) : runLog[i] = "serial") => concurrencyMode = "serial")
    /\ [][concurrencyMode = "serial" => concurrencyMode' = "serial"]_vars
    /\ [][(concurrencyMode = "parallel" /\ Len(runLog') > Len(runLog))
            => concurrencyMode' = IF runLog'[Len(runLog')] = "serial"
                                  THEN "serial" ELSE "parallel"]_vars

\* run() was given 'serial' and then 'parallel', and the Builder is serial
C26_Witness ==
    /\ runLog = <<"serial", "parallel">>
    /\ concurrencyMode = "serial"

\* the argument starts with "tdb:literal:"
StartsWithTdbLiteral(arg) == Len(arg) >= 2 /\ arg[1] = "tdb:" /\ arg[2] = "literal:"

\* the argument starts with "tdb:"
StartsWithTdb(arg) == Len(arg) >= 1 /\ arg[1] = "tdb:"

\* what one argument stands for in the rewritten command
ArgImage(arg, ctx) ==
    IF StartsWithTdbLiteral(arg) THEN <<SubSeq(arg, 3, Len(arg))>>
    ELSE IF arg = TdbTarget THEN <<ctx.targetName>>
    ELSE IF arg = TdbPrereq THEN <<ctx.prereqNames[1]>>
    ELSE IF arg = TdbPrereqs THEN ctx.prereqNames
    ELSE <<arg>>

\* an argument that cannot be rewritten
ArgFails(arg, ctx) ==
    \/ arg = TdbPrereq /\ ctx.prereqNames = <<>>
    \/ /\ StartsWithTdb(arg)
       /\ ~StartsWithTdbLiteral(arg)
       /\ arg \notin {TdbTarget, TdbPrereq, TdbPrereqs}

\* the number of arguments the first k arguments of cmd are rewritten to
RECURSIVE Offset(_, _, _)
Offset(cmd, k, ctx) ==
    IF k = 0 THEN 0 ELSE Offset(cmd, k - 1, ctx) + Len(ArgImage(cmd[k], ctx))

\* C27: rewriteCommand throws a traced error iff some argument is tdb:prereq
\* with no prerequisite, or starts with "tdb:" and is none of the
\* directives; otherwise the rewritten command consists, in the order of
\* the arguments, of X for tdb:literal:X, the target name for tdb:target, the
\* first prerequisite name for tdb:prereq, all prerequisite names in order
\* for tdb:prereqs (nothing when there are none), and every other argument
\* itself.
C27_RewriteCommand ==
    rewritten # NotRewritten =>
      LET ctx == Ctx(ctxPrereqNames)
          fails == \E i \in 1..Len(rawCmd) : ArgFails(rawCmd[i], ctx)
      IN IF fails
         THEN /\ rewritten.state = "thrown"
              /\ hasBuildTrace(rewritten.err)
              /\ rewritten.err.trace = ctx.buildRuleTrace
         ELSE /\ rewritten.state = "returned"
              /\ Len(rewritten.args) = Offset(rawCmd, Len(rawCmd), ctx)
              /\ \A i \in 1..Len(rawCmd) :
                    SubSeq(rewritten.args, Offset(rawCmd, i - 1, ctx) + 1,
                           Offset(rawCmd, i, ctx)) = ArgImage(rawCmd[i], ctx)

\* the mtime of x as the alternate mtime function and the disk give it
Effective(x) ==
    IF mtimeFunction[x] # Undefined THEN mtimeFunction[x]
    ELSE IF fs[x].kind = "none" THEN NegInf
    ELSE fs[x].mtime

\* the sidecar files of d, e1 and e2 hold these numbers
Sidecars(d, e1, e2) ==
    mtimeFunction["d"] = d /\ mtimeFunction["e1"] = e1 /\ mtimeFunction["e2"] = e2

C29_Verification ==
    /\ [](\A t \in Names :
            /\ pc[t] = "verify" => ran[t] /\ pstate[t] = "pending"
            /\ (pstate[t] = "rejected" /\ firstRej[t] = NoName /\ err[t].kind = "Verify")
                 => /\ TargetType(t) \in {"file", "directory"}
                    /\ ran[t]
                    /\ fs[t].kind # (IF TargetType(t) = "file" THEN "file" ELSE "dir"))
    /\ [][\A t \in Names :
            (pc[t] = "verify" /\ pc'[t] # "verify")
            => LET type == TargetType(t)
                   missing == fs[t].kind = "none"
                   bad == \/ type = "file" /\ (missing \/ fs[t].kind = "dir")
                          \/ type = "directory" /\ (missing \/ fs[t].kind = "file")
               IN IF bad
                  THEN /\ pstate'[t] = "rejected"
                       /\ err'[t].kind = "Verify"
                       /\ hasBuildTrace(err'[t])
                       /\ err'[t].trace = Append(parentTrace[t], t)
                  ELSE pstate'[t] = "pending" /\ pc'[t] = "postProcess"]_vars

\* e2, a "directory" rule without any build step, was missing, and its build
\* failed verification without a callable having run
C29_Witness ==
    /\ buildRules = LegacyRules
    /\ pstate["e2"] = "rejected"
    /\ firstRej["e2"] = NoName
    /\ err["e2"] = BuildError("Verify", <<"root", "d", "e2">>)
    /\ invoked["e2"] = 0
    /\ fs["e2"] = Absent

\* the rule of t is a phony rule with one build function
PhonyWithBuildFunction(t) ==
    /\ buildRules[t].present
    /\ buildRules[t].targetType = "phony"
    /\ buildRules[t].isDirectory = "undef"
    /\ buildRules[t].invoke # buildRules[t].cmd

\* C30: when the prerequisites of a phony target have all been built, its
\* build function is invoked, whatever is on disk under the target's name
\* and whatever mtimes the prerequisites reported; a phony target never
\* fulfils without its build function having been invoked.
C30_PhonyAlwaysRuns ==
    /\ [](\A t \in Names :
            PhonyWithBuildFunction(t) =>
              /\ pstate[t] = "fulfilled" => invoked[t] = 1 /\ ran[t]
              /\ (pc[t] \in {"running", "removing", "verify", "postProcess", "reread"})
                   => invoked[t] = 1)
    /\ [][\A t \in Names :
            (/\ PhonyWithBuildFunction(t)
             /\ pc[t] = "waitPrereqs"
             /\ pc'[t] # "waitPrereqs"
             /\ \A p \in DirectPrereqs(t) : pstate[p] = "fulfilled")
            => /\ invoked[t] = 0
               /\ invoked'[t] = 1
               /\ pc'[t] = "running"]_vars

\* the phony d is the newest thing on disk, newer than what e1 and e2
\* reported, and its callable is running
C30_Witness ==
    /\ buildRules = LegacyRules
    /\ fs["d"] = Entry("file", MaxTime)
    /\ pstate["e1"] = "fulfilled" /\ result["e1"] < MaxTime
    /\ pstate["e2"] = "fulfilled" /\ result["e2"] < MaxTime
    /\ invoked["d"] = 1
    /\ pc["d"] = "running"

\* C31: a phony target that was built reports Infinity, and a target with a
\* rule that has it among its prerequisites and read a finite mtime for itself
\* runs its build step once its prerequisites are built.
C31_PhonyForcesRebuild ==
    /\ [](\A p \in Names :
            buildRules[p].present /\ TargetType(p) = "phony" /\ pstate[p] = "fulfilled"
              => result[p] = PosInf)
    /\ [][\A t \in Names :
            (/\ pc[t] = "waitPrereqs"
             /\ pc'[t] # "waitPrereqs"
             /\ targetMtime[t] # NegInf
             /\ \A p \in DirectPrereqs(t) : pstate[p] = "fulfilled"
             /\ \E p \in DirectPrereqs(t) :
                    buildRules[p].present /\ TargetType(p) = "phony")
            => ran'[t]]_vars

\* d was the newest file on disk and was built again, after the phony e1
C31_Witness ==
    /\ buildRules = TypedRules
    /\ targetMtime["d"] = MaxTime
    /\ result["e1"] = PosInf
    /\ result["e2"] \in Mtimes
    /\ ran["d"]
    /\ invoked["d"] = 1
    /\ pstate["d"] = "fulfilled"

\* buildTarget(t) has called buildAll
BuildAllCalled(t) ==
    /\ buildRules[t].present
    /\ ~getRuleTargetTypeThrows(buildRules[t])
    /\ pc[t] \notin {"idle", "fetchRule", "readMtime"}

\* C32: for a target with a rule, ctx.prereqNames is the rule's prerequisites
\* in the order of the rule followed by the global prerequisites; buildAll
\* requests them in that order, each distinct name once at its first
\* occurrence: all of them at once in parallel mode, a growing prefix in
\* serial mode, and all of them before the build step runs.
C32_PrereqOrder ==
    \A t \in Names :
        BuildAllCalled(t) =>
            LET given == buildRules[t].prereqs \o globalPrereqs IN
            /\ PrereqNames(t) = given
            /\ \E k \in 0..Len(given) :
                   IsFirstOccurrenceOrder(reqLog[t], SubSeq(given, 1, k))
            /\ (concurrencyMode = "parallel" \/ ran[t] \/ pstate[t] = "fulfilled")
                 => IsFirstOccurrenceOrder(reqLog[t], given)

\* d lists e1, e2, e1 and the Builder has the global prerequisite sh: three
\* requests, the global one last, and the callable of d was invoked
C32_Witness ==
    /\ buildRules = TypedRules
    /\ globalPrereqs = <<"sh">>
    /\ reqLog["d"] = <<"e1", "e2", "sh">>
    /\ invoked["d"] = 1

\* the parameter an argument sets, "none" for a target name and for an
\* argument that is rejected
ParameterOf(arg) ==
    IF arg \in {<<"--list-targets">>, <<"--describe-targets">>, <<"--help">>} THEN "operation"
    ELSE IF arg \in {<<"--serial">>, <<"--parallel">>} THEN "concurrency"
    ELSE IF arg \in {<<"-v">>, <<"-q">>} \/ VerbosityMatch(arg) THEN "verbosity"
    ELSE "none"

\* the arguments that are taken as target names
TargetArgs(args) == SelectSeq(args, LAMBDA a : ~IsOption(a) /\ ~StartsWithDash(a))

\* no two different flags of the vector set the same parameter
NoConflict(args) ==
    \A i, j \in 1..Len(args) :
        (ParameterOf(args[i]) # "none" /\ ParameterOf(args[i]) = ParameterOf(args[j]))
        => args[i] = args[j]

\* the last argument of the vector that sets the parameter, <<>> if none does
LastSetting(args, parameter) ==
    LET S == {i \in 1..Len(args) : ParameterOf(args[i]) = parameter}
    IN IF S = {} THEN <<>> ELSE args[CHOOSE i \in S : \A j \in S : j <= i]

\* both calls have returned, and the second vector has the target names of
\* the first in the same order
BothParsed ==
    /\ parsedParams[1] # NotParsed
    /\ parsedParams[2] # NotParsed
    /\ TargetArgs(cmdLines[1]) = TargetArgs(cmdLines[2])

\* C33 as claimed: however the flags of an argument vector are permuted,
\* parseCommandLineArgs yields the same BuildParameters.
C33_Original == BothParsed => parsedParams[1] = parsedParams[2]

\* C33 as amended: permuting the flags of an argument vector in which no two
\* different flags set the same parameter leaves the outcome of
\* parseCommandLineArgs as it is (the same BuildParameters, or a rejection
\* in both cases); of the flags that set the same parameter the last wins.
C33_FlagsCommuteUnlessConflicting ==
    /\ (BothParsed /\ NoConflict(cmdLines[1])) =>
          /\ parsedParams[1].state = parsedParams[2].state
          /\ parsedParams[1].state = "resolved" => parsedParams[1] = parsedParams[2]
    /\ \A k \in 1..2 :
          parsedParams[k].state = "resolved" =>
             LET op == LastSetting(cmdLines[k], "operation")
                 cm == LastSetting(cmdLines[k], "concurrency")
             IN /\ parsedParams[k].buildOperation =
                      (IF op = <<>> THEN "build"
                       ELSE IF op = <<"--list-targets">> THEN "list-targets"
                       ELSE IF op = <<"--help">> THEN "print-help"
                       ELSE "describe-targets")
                /\ parsedParams[k].concurrencyMode =
                      (IF cm = <<>> THEN concurrencyMode
                       ELSE IF cm = <<"--serial">> THEN "serial" ELSE "parallel")

\* a parallel Builder was given --serial, a target and -q, and the same with
\* the two flags exchanged: both calls made the same parameters
C33_Witness ==
    /\ concurrencyMode = "parallel"
    /\ cmdLines = << << <<"--serial">>, <<"src", Backslash, "e1">>, <<"-q">> >>,
                     << <<"-q">>, <<"src", Backslash, "e1">>, <<"--serial">> >> >>
    /\ parsedParams[1] = parsedParams[2]
    /\ parsedParams[1].state = "resolved"
    /\ parsedParams[1].concurrencyMode = "serial"
    /\ parsedParams[1].verbosity = VERBOSITY_ERRORS
    /\ parsedParams[1].targetNames = << <<"src", "/", "e1">> >>

\* the prerequisites of t are built and none reports an mtime greater than
\* the one t read for itself, which is not -Infinity
FoundUpToDate(t) ==
    /\ buildRules[t].present
    /\ targetMtime[t] # NegInf
    /\ \A p \in DirectPrereqs(t) : pstate[p] = "fulfilled" /\ result[p] <= targetMtime[t]

\* C34: a target with a rule that is found up to date fulfils in the step
\* that finds it so, with the mtime read before its prerequisites were
\* built; its callable is not invoked and the disk is not touched; and a
\* target is running, being verified, post-processed or removed only if it
\* was found stale.
C34_UpToDateLeftAlone ==
    /\ [][\A t \in Names :
            (pc[t] = "waitPrereqs" /\ pc'[t] # "waitPrereqs" /\ FoundUpToDate(t))
            => /\ pc'[t] = "done"
               /\ pstate'[t] = "fulfilled"
               /\ result'[t] = targetMtime[t]
               /\ invoked'[t] = invoked[t]
               /\ ~ran'[t]
               /\ fs' = fs]_vars
    /\ [](\A t \in Names :
            pc[t] \in {"running", "removing", "verify", "postProcess", "reread"}
            => ~FoundUpToDate(t))

\* d, the newest file on disk, was left alone and reports the mtime it has
C34_Witness ==
    /\ buildRules = NestedRules
    /\ pstate["d"] = "fulfilled"
    /\ ~ran["d"]
    /\ invoked["d"] = 0
    /\ targetMtime["d"] = MaxTime
    /\ result["d"] = MaxTime
    /\ result["e1"] = 0 /\ result["e2"] = 0
    /\ fs["d"] = Entry("file", MaxTime)

\* the entry of a directory under the i-th name
Child(node, i) == IF node.kind = "dir" THEN node.kids[i] ELSE Unlisted

\* the path itself and what is below it, at the depths the trees have
TreeNodes(root) ==
    {root} \cup {Child(root, i) : i \in 1..Len(ChildNames)}
           \cup {Child(Child(root, i), j) : i, j \in 1..Len(ChildNames)}

\* the mtimes of the files and directories of the tree
TreeMtimes(root) == {n.mtime : n \in {x \in TreeNodes(root) : x.kind \in {"file", "dir"}}}

\* some entry of the tree is not found by stat
HasDangling(root) == Dangling \in TreeNodes(root)

\* mtimeR on a missing path: the sentinel, or the not-found error
OnMissingPath ==
    mtimeArgs.root = Dangling =>
        mtimeResult = (IF mtimeArgs.onNotFound.error THEN MtimeNotFound
                       ELSE MtimeReturned(mtimeArgs.onNotFound.value))

\* C35 as claimed: on an existing path mtimeR returns the greatest mtime of
\* the path and all that is below it; on a missing path the sentinel, or the
\* not-found error if onNotFound is "error".
C35_Original ==
    mtimeResult # NotCalled =>
        /\ OnMissingPath
        /\ mtimeArgs.root # Dangling =>
              mtimeResult = MtimeReturned(MaxOf(TreeMtimes(mtimeArgs.root)))

\* C35 as amended: as claimed for a tree all of whose entries stat finds; an
\* entry below the path that stat does not find is treated like a missing
\* path, with the onNotFound of the call: it adds the sentinel to the mtimes
\* the maximum is taken of, or the call fails with the not-found error.
C35_MtimeROfTree ==
    mtimeResult # NotCalled =>
        /\ OnMissingPath
        /\ mtimeArgs.root # Dangling =>
              IF ~HasDangling(mtimeArgs.root)
              THEN mtimeResult = MtimeReturned(MaxOf(TreeMtimes(mtimeArgs.root)))
              ELSE IF mtimeArgs.onNotFound.error THEN mtimeResult = MtimeNotFound
              ELSE mtimeResult = MtimeReturned(MaxOf(TreeMtimes(mtimeArgs.root)
                                                      \cup {mtimeArgs.onNotFound.value}))

\* an old directory with a dangling entry and an old directory that holds a
\* new file: mtimeR with the sentinel -Infinity returns the mtime of the file
C35_Witness ==
    /\ mtimeArgs.root.kind = "dir"
    /\ mtimeArgs.root.mtime = 0
    /\ Child(mtimeArgs.root, 1).kind = "dir"
    /\ Child(mtimeArgs.root, 1).mtime = 0
    /\ Child(Child(mtimeArgs.root, 1), 1) = File(MaxTime)
    /\ Child(Child(mtimeArgs.root, 1), 2) = Unlisted
    /\ Child(mtimeArgs.root, 2) = Dangling
    /\ mtimeArgs.onNotFound = OnNotFoundNumber(NegInf)
    /\ mtimeResult = MtimeReturned(MaxTime)

\* the names buildAll of c has after name p in its list
ListedAfter(c, p) ==
    {PrereqList(c)[i] : i \in {j \in 1..Len(PrereqList(c)) : j > IndexOf(PrereqList(c), p)}}

\* C36: in serial mode buildAll requests nothing after a build that rejected:
\* no name is requested after a name whose promise has rejected; the caller
\* fails with the last name it requested and makes no request afterwards;
\* the names listed after that one were not requested by this buildAll, and
\* whatever memo entry they have was made with another caller's context.
C36_SerialStopsAtFailure ==
    /\ [](concurrencyMode = "serial" =>
            \A c \in Callers :
                /\ \A i \in 1..(Len(reqLog[c]) - 1) : pstate[reqLog[c][i]] # "rejected"
                /\ (pstate[c] = "rejected" /\ firstRej[c] # NoName) =>
                      /\ reqLog[c] # <<>>
                      /\ Last(reqLog[c]) = firstRej[c]
                      /\ \A n \in ListedAfter(c, firstRej[c]) :
                            /\ ~InSeq(reqLog[c], n)
                            /\ parentTrace[n] # buildRuleTrace(c)
                            /\ ~MemoHit(n) => invoked[n] = 0)
    /\ [][\A c \in Callers :
            (concurrencyMode = "serial" /\ pstate[c] = "rejected")
            => reqLog'[c] = reqLog[c]]_vars

\* serial mode: d lists e1 and e2, the build of e1 failed on its rule, d
\* failed with it, and e2 has no memo entry
C36_Witness ==
    /\ concurrencyMode = "serial"
    /\ buildRules = ConflictRules
    /\ pstate["d"] = "rejected"
    /\ firstRej["d"] = "e1"
    /\ err["e1"].kind = "Config"
    /\ reqLog["d"] = <<"e1">>
    /\ ~MemoHit("e2")
    /\ invoked["e2"] = 0

\* the global prerequisites are the tail of the prerequisite names of every
\* target with a rule, and a name without a rule never requests anything
GlobalsAppended ==
    \A t \in Names :
        IF buildRules[t].present
        THEN /\ Len(PrereqNames(t)) = Len(buildRules[t].prereqs) + Len(globalPrereqs)
             /\ SubSeq(PrereqNames(t), Len(buildRules[t].prereqs) + 1, Len(PrereqNames(t)))
                  = globalPrereqs
             /\ (BuildAllCalled(t) /\ concurrencyMode = "parallel")
                  => \A i \in 1..Len(globalPrereqs) : InSeq(reqLog[t], globalPrereqs[i])
        ELSE reqLog[t] = <<>> /\ pc[t] \notin {"readMtime", "waitPrereqs"}

\* t has a rule, is named in the global prerequisites, and has been requested
GlobalWithRule(t) ==
    buildRules[t].present /\ InSeq(globalPrereqs, t) /\ MemoHit(t)

\* C37 as claimed: the global prerequisites are appended for every target
\* with a rule and for none without; a target with a rule that is itself a
\* global prerequisite never settles.
C37_Original ==
    /\ GlobalsAppended
    /\ \A t \in Names : GlobalWithRule(t) => pstate[t] = "pending"

\* C37 as amended: ... such a target awaits its own promise and never
\* fulfils: it stays pending unless the build of another of its
\* prerequisites fails (or its rule is rejected for its fields), in which
\* case it rejects with that failure.
C37_GlobalSelfNeverFulfils ==
    /\ GlobalsAppended
    /\ \A t \in Names :
          GlobalWithRule(t) =>
             /\ pstate[t] # "fulfilled"
             /\ ~ran[t]
             /\ pstate[t] = "rejected" =>
                   \/ getRuleTargetTypeThrows(buildRules[t])
                   \/ /\ firstRej[t] \notin {NoName, t}
                      /\ pstate[firstRej[t]] = "rejected"
                      /\ err[t] = err[firstRej[t]]
             /\ PrereqList(t) = <<t>> /\ ~getRuleTargetTypeThrows(buildRules[t])
                   => pstate[t] = "pending"

\* sh has a rule and is the global prerequisite: its prerequisite e2 is built,
\* it has requested itself and waits, and so does d, which waits for it
C37_Witness ==
    /\ buildRules = CommandRules
    /\ globalPrereqs = <<"sh">>
    /\ pstate["e2"] = "fulfilled"
    /\ reqLog["sh"] = <<"e2", "sh">>
    /\ pc["sh"] = "waitPrereqs"
    /\ pstate["sh"] = "pending"
    /\ InSeq(reqLog["d"], "sh")
    /\ pstate["d"] = "pending"

\* the command line makes run() list or describe the targets, print the
\* help text, or build no target
NonBuilding ==
    /\ ~argv.unrecognized
    /\ \/ argv.buildOperation \in {"list-targets", "describe-targets", "print-help"}
       \/ argv.buildOperation = "build" /\ argv.targetNames = <<>>

\* C38: run() for list-targets, describe-targets, print-help, or a build of
\* no targets invokes no callable, makes no memo entry and leaves the settle
\* chain as it is, the resolved promise; run() resolves at once; a join()
\* after it returns the resolved promise without waiting, and the command
\* line exits with 0.
C38_RunBuildsNothing ==
    NonBuilding =>
        /\ \A t \in Names : invoked[t] = 0 /\ ~MemoHit(t) /\ pstate[t] = "none"
        /\ handles = {}
        /\ allBuildPromisesSettled = RESOLVED_VOID_PROMISE
        /\ \A j \in Joiners : joinPc[j] \in {"idle", "resolved"}
        /\ clPc # "idle" => pstate[TopLevel] = "fulfilled"
        /\ clPc \notin {"rejected"}
        /\ exitCode = 0

\* --describe-targets: the rules were fetched once, nothing was built, both
\* joins returned and the command line exited with 0
C38_Witness ==
    /\ argv.buildOperation = "describe-targets"
    /\ clPc = "exited"
    /\ exitCode = 0
    /\ hookCalls = 1
    /\ nextId = 1
    /\ joinPc = [j \in Joiners |-> "resolved"]

\* no cycle of prerequisite edges
Acyclic == \A x \in Names : ~OnCycle(x)

\* every callable that was invoked, and every touchDir, has left the newest
\* mtime there is under the name of its target: what a build leaves does not
\* depend on when it runs
BuildsStampAlike ==
    \A t \in Names :
        (pstate[t] = "fulfilled" /\ (invoked[t] > 0 \/ (ran[t] /\ fs[t].kind = "dir"
                                                         /\ TargetType(t) = "directory")))
        => fs[t].mtime = MaxTime

\* what a disk entry counts for in buildTarget
DiskMtime(entry) == IF entry.kind = "none" THEN NegInf ELSE entry.mtime

\* What build(t) does on the disk fs0 when every build succeeds and builds
\* stamp alike, as a function of the rules and the disk only: whether the
\* build step of t runs, and the mtime it reports.  k bounds the depth.
RECURSIVE Outcome(_, _)
Outcome(t, k) ==
    IF ~buildRules[t].present \/ k = 0
    THEN [ran |-> FALSE, mtime |-> DiskMtime(fs0[t])]
    ELSE LET own == IF TargetType(t) = "phony" THEN NegInf ELSE DiskMtime(fs0[t])
             stale == \/ own = NegInf
                      \/ \E p \in DirectPrereqs(t) : Outcome(p, k - 1).mtime > own
             stamped == \/ HasBuildFunction(buildRules[t])
                        \/ TargetType(t) = "directory" /\ fs0[t].kind = "dir"
         IN IF ~stale THEN [ran |-> FALSE, mtime |-> own]
            ELSE [ran |-> TRUE,
                  mtime |-> IF TargetType(t) = "phony" THEN PosInf
                            ELSE IF stamped THEN MaxTime
                            ELSE DiskMtime(fs0[t])]

\* C39: in an acyclic rule graph, with builds that succeed and stamp alike,
\* whether the callable of a target is invoked and the mtime the target
\* reports are a function of the rules and the initial disk, the same
\* function in serial and in parallel mode: every target that has fulfilled
\* ran its build step iff the function says so, invoked its callable once in
\* that case and never otherwise, and reports the mtime the function gives;
\* and all prerequisites of a fulfilled target have fulfilled.
C39_ModeIndependent ==
    (Acyclic /\ BuildsStampAlike) =>
        \A t \in Names :
            pstate[t] = "fulfilled" =>
                LET o == Outcome(t, Cardinality(Names)) IN
                /\ buildRules[t].present => ran[t] = o.ran
                /\ invoked[t] = IF o.ran /\ HasBuildFunction(buildRules[t]) THEN 1 ELSE 0
                /\ result[t] = o.mtime
                /\ \A p \in TransPrereqs(t) : pstate[p] = "fulfilled"

\* serial mode: d was the newest file; the phony e1, listed first, was built
\* and e2, listed after it, was left alone, and d was built again
C39_Witness ==
    /\ concurrencyMode = "serial"
    /\ buildRules = TypedRules
    /\ fs0 = Disk(Entry("file", 0), Entry("file", 0), Entry("file", 0), Entry("file", MaxTime))
    /\ BuildsStampAlike
    /\ pstate["d"] = "fulfilled"
    /\ invoked = [n \in Names |-> IF n \in {"d", "e1"} THEN 1 ELSE 0]
    /\ result["e1"] = PosInf /\ result["e2"] = 0 /\ result["d"] = MaxTime

\* the errors of verifyTarget, getRuleBuildFunction (conflicting fields, a
\* command that cannot be rewritten) and getRuleTargetType
NotOfTheCallable == {"Verify", "Config", "UnknownDirective", "NoPrereq"}

\* C40: only the failure of the build function leads to the removal of the
\* artifact: a target is being removed only after its build function was
\* invoked and threw; an artifact disappears only in that removal; and the
\* step in which a target rejects with a verification, rewriting or
\* configuration error leaves the disk as it is, whatever the rule says
\* about keeping.
C40_PolicyOnlyForCallable ==
    /\ [](\A t \in Names :
            pc[t] = "removing" =>
               /\ invoked[t] > 0
               /\ err[t] = ThrownBy(t)
               /\ err[t].kind \notin NotOfTheCallable)
    /\ [][\A t \in Names :
            /\ (fs[t].kind # "none" /\ fs'[t].kind = "none") => pc[t] = "removing"
            /\ (/\ pstate[t] # "rejected"
                /\ pstate'[t] = "rejected"
                /\ err'[t].kind \in NotOfTheCallable)
               => fs' = fs]_vars

\* the command of e1 could not be rewritten: e1 failed, and the file e1 is
\* still there although the rule says keepOnFailure: false
C40_Witness ==
    /\ buildRules = CommandRules
    /\ pstate["e1"] = "rejected"
    /\ err["e1"].kind = "UnknownDirective"
    /\ getFailureFileAction(buildRules["e1"]) = "delete"
    /\ invoked["e1"] = 0
    /\ fs["e1"] = Entry("file", 0)

====
